---- MODULE Spec2Model ----
(***************************************************************************)
(* A model of the Bodega chat provider's response decoder                  *)
(* (packages/kosong/src/kosong/contrib/chat_provider/bodega.py):           *)
(*   - StreamTagParser: the streaming scanner for <think> / <tool_call>;   *)
(*   - _parse_content_with_tags: the whole-body (non-streaming) scanner;   *)
(*   - BodegaStreamedMessage: the facade over a streamed or a whole body.  *)
(*   - Bodega: generate() and the copy-and-mutate configuration builders.  *)
(* Text is a sequence of one-character strings, so that searching,         *)
(* slicing and JSON decoding are computed character by character.          *)
(***************************************************************************)
EXTENDS Integers, Sequences, FiniteSets, TLC

VARIABLES
    doc,         \* parser run: the text to deliver, as its sequence of segments
    fed,         \* parser run: number of characters delivered so far
    cuts,        \* parser run: the offsets at which the deliveries so far ended
    flushed,     \* parser run: the fragments yielded by flush()
    phase,       \* parser run: "feeding" | "done" ("off" in the other runs)
    tag_parser,  \* StreamTagParser fields: buffer, in_think, in_tool, tool_buffer
    parts,       \* the fragments the consumer has received, in order
    uuid_drawn,  \* number of uuid4() identifiers drawn so far
    lines,       \* facade run: the lines the transport has delivered (response.aiter_lines()),
                 \* ended by a line of kind "eof" once the transport has run out
    line_pos,    \* facade run: number of lines the generator has read
    iter,        \* BodegaStreamedMessage._iter: 0 for None, else the generator's number
    gen,         \* the generator: "unstarted" | "reading" | "flushed" | "finished" | "raised"
    resp_id,     \* BodegaStreamedMessage._id (0 for None)
    usage,       \* BodegaStreamedMessage._usage
    has_api_parsed_fields, \* the local flag of _convert_stream_response
    produced,    \* the fragments the generator has yielded or will yield from the
                 \* frame it has read, each with the line it came from
    fed_lines,   \* the lines whose content was passed to tag_parser.process
    stops,       \* number of StopAsyncIteration results the consumer has received
    aiters,      \* the iterators the __aiter__ calls so far have returned
    awaiting,    \* TRUE while an __anext__ call waits for the generator
    call,        \* Bodega.generate(): "idle" | "posting" | "returned" | "raised"
    client,      \* the httpx.AsyncClient of the call: "none" | "open" | "closed"
    requests,    \* number of HTTP requests issued
    body_read,   \* TRUE once the transport has read the response body to its end
    error,       \* the exception surfaced to the caller ("none": none so far)
    message,     \* whole-body run: the response body, its choices[0].message with it
    whole,       \* whole-body run: the fragments _convert_non_stream_response yielded
    heap,        \* the dict and list objects: heap[c] is the object with identity c
    providers,   \* the Bodega objects: _thinking_effort, and the identities of the
                 \* dicts _generation_kwargs and _chat_template_kwargs refer to
    request_body, \* the request body generate() built
    recorded,    \* for each provider, its configuration when it was made or last
                 \* updated through itself
    origin,      \* for each provider, the provider it was copied from (0: constructed)
    messages,    \* agent run: the conversation of main() (tests/smol_axe/knife.py)
    at,          \* agent run: where main() is: "input" | "call" | "tools" | "quit" ("off")
    message_response, \* agent run: what the last call_api() returned
    tool_pos,    \* agent run: the position of "for tool_call in tool_calls"
    ran,         \* agent run: the run_tool() calls made, in order
    stream,      \* agent run: the chunks of the last call_api()
    api_calls    \* agent run: number of call_api() calls

wholeVars == <<message, whole>>
providerVars == <<heap, providers, request_body, recorded, origin>>
agentVars == <<messages, at, message_response, tool_pos, ran, stream, api_calls>>
parserVars == <<doc, fed, cuts, flushed, phase, wholeVars, providerVars, agentVars>>
callVars == <<call, client, requests, body_read, error>>
streamVars == <<lines, line_pos, iter, gen, resp_id, usage, has_api_parsed_fields,
                produced, fed_lines, stops, aiters, awaiting, callVars, providerVars,
                agentVars>>
facadeVars == <<streamVars, wholeVars>>
vars == <<doc, fed, cuts, flushed, phase, tag_parser, parts, uuid_drawn,
          lines, line_pos, iter, gen, resp_id, usage, has_api_parsed_fields,
          produced, fed_lines, stops, aiters, awaiting,
          call, client, requests, body_read, error, message, whole,
          heap, providers, request_body, recorded, origin,
          messages, at, message_response, tool_pos, ran, stream, api_calls>>

(***************************************************************************)
(* Text helpers (Python str operations)                                    *)
(***************************************************************************)

Min(a, b) == IF a < b THEN a ELSE b

\* s[:n] for 0 <= n
Take(s, n) == SubSeq(s, 1, Min(n, Len(s)))

\* s[n:] for 0 <= n
Drop(s, n) == SubSeq(s, n + 1, Len(s))

\* s[-n:] for 0 < n
LastN(s, n) == IF Len(s) <= n THEN s ELSE SubSeq(s, Len(s) - n + 1, Len(s))

\* s[:-n] for 0 < n
ButLastN(s, n) == IF Len(s) <= n THEN <<>> ELSE SubSeq(s, 1, Len(s) - n)

\* s.startswith(pat, i) with i a 0-based offset
MatchAt(s, pat, i) ==
    /\ i + Len(pat) <= Len(s)
    /\ \A k \in 1..Len(pat) : s[i + k] = pat[k]

\* s.find(pat, from): the smallest 0-based offset >= from at which pat occurs, else -1
FindFrom(s, pat, from) ==
    LET hits == { i \in from..(Len(s) - Len(pat)) : MatchAt(s, pat, i) }
    IN  IF hits = {} THEN -1 ELSE CHOOSE i \in hits : \A j \in hits : i <= j

\* s.find(pat)
Find(s, pat) == FindFrom(s, pat, 0)

IsWs(c) == c \in {" ", "\n", "\t", "\r"}

RECURSIVE SkipWs(_, _)
\* the 0-based offset of the first non-whitespace character at or after i
SkipWs(s, i) == IF i < Len(s) /\ IsWs(s[i + 1]) THEN SkipWs(s, i + 1) ELSE i

\* the text as it is, where str.strip() would trim it
Unstripped(s) == s

RECURSIVE Strip(_)
\* str.strip()
Strip(s) ==
    IF s = <<>> THEN s
    ELSE IF IsWs(s[1]) THEN Strip(Tail(s))
    ELSE IF IsWs(s[Len(s)]) THEN Strip(SubSeq(s, 1, Len(s) - 1))
    ELSE s

RECURSIVE Join(_, _)
\* sep.join(list)
Join(list, sep) ==
    IF list = <<>> THEN <<>>
    ELSE IF Len(list) = 1 THEN list[1]
    ELSE list[1] \o sep \o Join(Tail(list), sep)

(***************************************************************************)
(* The delimiters                                                          *)
(***************************************************************************)

THINK_OPEN == <<"<","t","h","i","n","k",">">>
THINK_CLOSE == <<"<","/","t","h","i","n","k",">">>
TOOL_OPEN == <<"<","t","o","o","l","_","c","a","l","l",">">>
TOOL_CLOSE == <<"<","/","t","o","o","l","_","c","a","l","l",">">>

\* the value of tag_type in process(): "think" or "tool"
TagTypeText(tag_type) ==
    IF tag_type = "think" THEN <<"t","h","i","n","k">> ELSE <<"t","o","o","l">>

(***************************************************************************)
(* JSON: json.loads and json.dumps on the grammar of objects, arrays,      *)
(* strings without escapes, integers and the literals true/false/null.     *)
(* A decoded value is [t, s, keys, items]:                                 *)
(*   t = "obj": keys[k] is the k-th key, items[k] its value;               *)
(*   t = "arr": items; t = "str": s the characters; t = "num": s the       *)
(*   digits; t = "lit": s the literal.                                     *)
(***************************************************************************)

JStr(chars) == [t |-> "str", s |-> chars, keys |-> <<>>, items |-> <<>>]
JNum(chars) == [t |-> "num", s |-> chars, keys |-> <<>>, items |-> <<>>]
JLit(chars) == [t |-> "lit", s |-> chars, keys |-> <<>>, items |-> <<>>]
JArr(items) == [t |-> "arr", s |-> <<>>, keys |-> <<>>, items |-> items]
JObj(keys, items) == [t |-> "obj", s |-> <<>>, keys |-> keys, items |-> items]

JFail == [ok |-> FALSE, v |-> JLit(<<>>), next |-> 0]
JOk(v, next) == [ok |-> TRUE, v |-> v, next |-> next]

Digits == {"0", "1", "2", "3", "4", "5", "6", "7", "8", "9"}

RECURSIVE ScanDigits(_, _)
\* the offset after the run of digits that starts at offset i
ScanDigits(s, i) == IF i < Len(s) /\ s[i + 1] \in Digits THEN ScanDigits(s, i + 1) ELSE i

\* the string whose opening quote is at offset i and whose closing quote is at offset
\* close (-1: none)
StringUpTo(s, i, close) ==
    IF close = -1 THEN JFail
    ELSE IF \E k \in (i + 2)..close : s[k] \in {"\\", "\n", "\t", "\r"} THEN JFail
    ELSE JOk(JStr(SubSeq(s, i + 2, close)), close + 1)

\* a JSON string at offset i (s[i+1] is the opening quote); escapes are outside the grammar
ParseString(s, i) == StringUpTo(s, i, FindFrom(s, <<"\"">>, i + 1))

\* the offset after 0|[1-9][0-9]* at offset d0 (d0 itself: no digits)
DigitsEnd(s, d0) == IF d0 < Len(s) /\ s[d0 + 1] = "0" THEN d0 + 1 ELSE ScanDigits(s, d0)

\* the number that starts at offset i, its digits at offsets d0 up to d1
NumberUpTo(s, i, d0, d1) ==
    IF d1 = d0 THEN JFail
    ELSE IF SubSeq(s, i + 1, d1) = <<"-", "0">> THEN JOk(JNum(<<"0">>), d1)
    ELSE JOk(JNum(SubSeq(s, i + 1, d1)), d1)

\* -?(0|[1-9][0-9]*) at offset i; int("-0") is 0
ParseNumber(s, i) ==
    IF s[i + 1] = "-" THEN NumberUpTo(s, i, i + 1, DigitsEnd(s, i + 1))
    ELSE NumberUpTo(s, i, i, DigitsEnd(s, i))

\* dict[k] = v: a repeated key keeps its place and takes the new value
DictPut(keys, items, k, v) ==
    IF \E n \in 1..Len(keys) : keys[n] = k
    THEN [keys |-> keys,
          items |-> [n \in 1..Len(items) |-> IF keys[n] = k THEN v ELSE items[n]]]
    ELSE [keys |-> Append(keys, k), items |-> Append(items, v)]

\* an open array or object: what it holds so far, and the key awaiting its value
JFrame(t) == [t |-> t, keys |-> <<>>, items |-> <<>>, key |-> <<>>]

\* the decoder's state: offset i, what it expects (mode "value", "key" or "after" a
\* value), the open arrays and objects (innermost last), and the outcome
JStart(i) ==
    [i |-> i, mode |-> "value", stack |-> <<>>, ok |-> TRUE, done |-> FALSE,
     v |-> JLit(<<>>)]

JStop(st) == [st EXCEPT !.ok = FALSE]

\* the innermost open array or object after it takes the value v
JFill(top, v) ==
    IF top.t = "arr" THEN [top EXCEPT !.items = Append(@, v)]
    ELSE [top EXCEPT !.keys = DictPut(top.keys, top.items, top.key, v).keys,
                     !.items = DictPut(top.keys, top.items, top.key, v).items]

\* a value v that ends at offset next is complete: it is the result, or it goes
\* into the innermost open array or object
JComplete(st, v, next) ==
    IF st.stack = <<>>
    THEN [st EXCEPT !.done = TRUE, !.v = v, !.i = next]
    ELSE [st EXCEPT !.stack[Len(st.stack)] = JFill(@, v), !.mode = "after", !.i = next]

\* a string or number r that was scanned where a value is expected
JScalar(st, r) == IF r.ok THEN JComplete(st, r.v, r.next) ELSE JStop(st)

\* an opening bracket of kind t, the next non-blank character at offset j: the empty
\* array or object if that is the closer, else it is opened and expects mode
JOpen(s, st, t, closer, mode, j) ==
    IF j < Len(s) /\ s[j + 1] = closer
    THEN JComplete(st, IF t = "arr" THEN JArr(<<>>) ELSE JObj(<<>>, <<>>), j + 1)
    ELSE [st EXCEPT !.stack = Append(@, JFrame(t)), !.mode = mode, !.i = j]

\* the decoder expects a value at offset i
JValueStep(s, st, i) ==
    IF s[i + 1] = "\"" THEN JScalar(st, ParseString(s, i))
    ELSE IF s[i + 1] = "{" THEN JOpen(s, st, "obj", "}", "key", SkipWs(s, i + 1))
    ELSE IF s[i + 1] = "[" THEN JOpen(s, st, "arr", "]", "value", SkipWs(s, i + 1))
    ELSE IF s[i + 1] = "-" \/ s[i + 1] \in Digits THEN JScalar(st, ParseNumber(s, i))
    ELSE IF \E lit \in {<<"t","r","u","e">>, <<"f","a","l","s","e">>, <<"n","u","l","l">>} :
                MatchAt(s, lit, i)
    THEN JComplete(st, JLit(SubSeq(s, i + 1, i + (IF s[i + 1] = "f" THEN 5 ELSE 4))),
                   i + (IF s[i + 1] = "f" THEN 5 ELSE 4))
    ELSE JStop(st)

\* the key k was scanned, the next non-blank character after it is at offset c
JKeyed(s, st, k, c) ==
    IF ~k.ok \/ c >= Len(s) THEN JStop(st)
    ELSE IF s[c + 1] # ":" THEN JStop(st)
    ELSE [st EXCEPT !.stack[Len(st.stack)].key = k.v.s, !.mode = "value", !.i = c + 1]

\* the decoder expects a key and its colon at offset i
JKeyStep(s, st, i) ==
    IF s[i + 1] # "\"" THEN JStop(st)
    ELSE JKeyed(s, st, ParseString(s, i), SkipWs(s, ParseString(s, i).next))

\* the innermost array or object, top, is closed at offset i
JClose(st, top, i) ==
    JComplete([st EXCEPT !.stack = SubSeq(@, 1, Len(@) - 1)],
              IF top.t = "arr" THEN JArr(top.items) ELSE JObj(top.keys, top.items), i + 1)

\* the decoder is after a value inside the array or object top, at offset i
JAfterStep(s, st, top, i) ==
    IF s[i + 1] = "," THEN [st EXCEPT !.mode = IF top.t = "arr" THEN "value" ELSE "key",
                                      !.i = i + 1]
    ELSE IF s[i + 1] = (IF top.t = "arr" THEN "]" ELSE "}") THEN JClose(st, top, i)
    ELSE JStop(st)

\* one step of the decoder at the non-blank offset i
JStep(s, st, i) ==
    IF i >= Len(s) THEN JStop(st)
    ELSE IF st.mode = "value" THEN JValueStep(s, st, i)
    ELSE IF st.mode = "key" THEN JKeyStep(s, st, i)
    ELSE JAfterStep(s, st, st.stack[Len(st.stack)], i)

RECURSIVE JRun(_, _)
\* the decoder runs until the outermost value is complete or the text is rejected
JRun(s, st) == IF st.done \/ ~st.ok THEN st ELSE JRun(s, JStep(s, st, SkipWs(s, st.i)))

\* the outcome of a finished run r over s: nothing but blanks may follow the value
JResult(s, r) == IF r.ok /\ r.done /\ SkipWs(s, r.i) = Len(s) THEN JOk(r.v, r.i) ELSE JFail

\* json.loads(s): ok is FALSE where Python raises JSONDecodeError
json_loads(s) == JResult(s, JRun(s, JStart(0)))

RECURSIVE json_dumps(_)
RECURSIVE DumpItems(_)
RECURSIVE DumpMembers(_, _)

DumpItems(items) ==
    IF items = <<>> THEN <<>>
    ELSE IF Len(items) = 1 THEN json_dumps(items[1])
    ELSE json_dumps(items[1]) \o <<",", " ">> \o DumpItems(Tail(items))

DumpMembers(keys, items) ==
    IF keys = <<>> THEN <<>>
    ELSE LET m == <<"\"">> \o keys[1] \o <<"\"", ":", " ">> \o json_dumps(items[1])
         IN  IF Len(keys) = 1 THEN m
             ELSE m \o <<",", " ">> \o DumpMembers(Tail(keys), Tail(items))

\* json.dumps(v) with the default separators ", " and ": "
json_dumps(v) ==
    IF v.t = "obj" THEN <<"{">> \o DumpMembers(v.keys, v.items) \o <<"}">>
    ELSE IF v.t = "arr" THEN <<"[">> \o DumpItems(v.items) \o <<"]">>
    ELSE IF v.t = "str" THEN <<"\"">> \o v.s \o <<"\"">>
    ELSE v.s

\* isinstance(v, dict) and key in v
HasKey(v, key) == v.t = "obj" /\ \E n \in 1..Len(v.keys) : v.keys[n] = key

\* v[key] for a key of v
GetKey(v, key) == v.items[CHOOSE n \in 1..Len(v.keys) : v.keys[n] = key]

KeyName == <<"n","a","m","e">>
KeyArguments == <<"a","r","g","u","m","e","n","t","s">>

\* the text of a decoded name: a string's characters, any other value as it serialises
NameText(v) == IF v.t = "str" THEN v.s ELSE json_dumps(v)

(***************************************************************************)
(* Message fragments (kosong.message parts), one record shape for all:     *)
(*   TextPart(text), ThinkPart(think) and ToolCallPart(arguments_part)     *)
(*   carry their string in text; ToolCall carries id, name, arguments.     *)
(***************************************************************************)

NoId == [syn |-> FALSE, n |-> 0]

\* f"call_{uuid.uuid4().hex[:16]}" and str(uuid.uuid4()): the n-th identifier drawn
SynId(n) == [syn |-> TRUE, n |-> n]

\* an id that came with the response
UpstreamId(n) == [syn |-> FALSE, n |-> n]

TextPart(text) == [kind |-> "Text", text |-> text, id |-> NoId, name |-> <<>>, arguments |-> <<>>]
ThinkPart(think) == [kind |-> "Think", text |-> think, id |-> NoId, name |-> <<>>, arguments |-> <<>>]
ToolCallPart(arguments_part) ==
    [kind |-> "ToolCallPart", text |-> arguments_part, id |-> NoId, name |-> <<>>, arguments |-> <<>>]
ToolCall(id, name, arguments) ==
    [kind |-> "ToolCall", text |-> <<>>, id |-> id, name |-> name, arguments |-> arguments]

(***************************************************************************)
(* StreamTagParser                                                         *)
(***************************************************************************)

\* self.keep_size
\* one less than the length of the longest delimiter
longest_delimiter_less_one == Len(TOOL_CLOSE) - 1

keep_size == 15

\* StreamTagParser.__init__
NewTagParser == [buffer |-> <<>>, in_think |-> FALSE, in_tool |-> FALSE, tool_buffer |-> <<>>]

\* tag_len = len(f"<{tag_type}>")
TagLen(tag_type) == Len(<<"<">> \o TagTypeText(tag_type) \o <<">">>)

\* tool_data = json.loads(...): a ToolCall if it decoded to a dict with a "name"
ToolCallFromData(r, uuids) ==
    IF r.ok /\ HasKey(r.v, KeyName)
    THEN <<ToolCall(SynId(uuids + 1),
                    NameText(GetKey(r.v, KeyName)),
                    json_dumps(IF HasKey(r.v, KeyArguments)
                               THEN GetKey(r.v, KeyArguments)
                               ELSE JObj(<<>>, <<>>)))>>
    ELSE <<>>

\* the tool-state branch's fragments for the text between opener and closer:
\* json.loads, then a ToolCall if it is a dict with a name, else nothing
ToolCallFromJson(tool_json_str, uuids) == ToolCallFromData(json_loads(tool_json_str), uuids)

\* an in_think branch that leaves the state at </think> without advancing the buffer
ThinkStepNoAdvance(st) ==
    LET buffer == st.p.buffer
        end_idx == Find(buffer, THINK_CLOSE)
    IN  IF end_idx # -1
        THEN [st EXCEPT !.out = IF Take(buffer, end_idx) # <<>>
                                THEN Append(@, ThinkPart(Take(buffer, end_idx))) ELSE @,
                        !.p.in_think = FALSE]
        ELSE IF Len(buffer) > keep_size
        THEN [st EXCEPT !.out = Append(@, ThinkPart(ButLastN(buffer, keep_size))),
                        !.p.buffer = LastN(buffer, keep_size),
                        !.go = FALSE]
        ELSE [st EXCEPT !.go = FALSE]

\* the in_think branch of the loop; st is [p: the parser, out: the parts yielded, uuids, go]
ThinkStep(st) ==
    LET buffer == st.p.buffer
        end_idx == Find(buffer, THINK_CLOSE)
    IN  IF end_idx # -1
        THEN [st EXCEPT !.out = IF Take(buffer, end_idx) # <<>>
                                THEN Append(@, ThinkPart(Take(buffer, end_idx))) ELSE @,
                        !.p.buffer = Drop(buffer, end_idx + Len(THINK_CLOSE)),
                        !.p.in_think = FALSE]
        ELSE IF Len(buffer) > keep_size
        THEN [st EXCEPT !.out = Append(@, ThinkPart(ButLastN(buffer, keep_size))),
                        !.p.buffer = LastN(buffer, keep_size),
                        !.go = FALSE]
        ELSE [st EXCEPT !.go = FALSE]

\* the in_tool branch where the closer is at end_idx and the region yields made
ToolEnd(st, end_idx, made) ==
    [st EXCEPT !.out = @ \o made,
               !.uuids = @ + Len(made),
               !.p.tool_buffer = <<>>,
               !.p.buffer = Drop(@, end_idx + Len(TOOL_CLOSE)),
               !.p.in_tool = FALSE]

\* a tool-state branch that opens a think region inside the tool-call body
ToolStepNesting(st) ==
    LET buffer == st.p.buffer
        end_idx == Find(buffer, TOOL_CLOSE)
        think_idx == Find(buffer, THINK_OPEN)
    IN  IF think_idx # -1 /\ (end_idx = -1 \/ think_idx < end_idx)
        THEN [st EXCEPT !.p.tool_buffer = @ \o Take(buffer, think_idx),
                        !.p.buffer = Drop(buffer, think_idx + Len(THINK_OPEN)),
                        !.p.in_think = TRUE]
        ELSE IF end_idx # -1
        THEN ToolEnd(st, end_idx,
                     ToolCallFromJson(st.p.tool_buffer \o Take(buffer, end_idx), st.uuids))
        ELSE [st EXCEPT !.p.tool_buffer = @ \o buffer,
                        !.p.buffer = <<>>,
                        !.go = FALSE]

\* a tool-state branch that takes a <think> in the buffer for an opener
ToolStepScanning(st) ==
    LET buffer == st.p.buffer
        end_idx == Find(buffer, TOOL_CLOSE)
        think_idx == Find(buffer, THINK_OPEN)
    IN  IF think_idx # -1 /\ (end_idx = -1 \/ think_idx < end_idx)
        THEN [st EXCEPT !.p.tool_buffer = @ \o Take(buffer, think_idx),
                        !.p.buffer = Drop(buffer, think_idx + Len(THINK_OPEN)),
                        !.p.in_tool = FALSE,
                        !.p.in_think = TRUE]
        ELSE IF end_idx # -1
        THEN ToolEnd(st, end_idx,
                     ToolCallFromJson(st.p.tool_buffer \o Take(buffer, end_idx), st.uuids))
        ELSE [st EXCEPT !.p.tool_buffer = @ \o buffer,
                        !.p.buffer = <<>>,
                        !.go = FALSE]

\* an in_tool branch that copies the buffer into the tool buffer and keeps it
ToolStepKeeping(st) ==
    LET buffer == st.p.buffer
        end_idx == Find(buffer, TOOL_CLOSE)
    IN  IF end_idx # -1
        THEN ToolEnd(st, end_idx,
                     ToolCallFromJson(st.p.tool_buffer \o Take(buffer, end_idx), st.uuids))
        ELSE [st EXCEPT !.p.tool_buffer = @ \o buffer,
                        !.go = FALSE]

\* the in_tool branch of the loop
ToolStep(st) ==
    LET buffer == st.p.buffer
        end_idx == Find(buffer, TOOL_CLOSE)
    IN  IF end_idx # -1
        THEN ToolEnd(st, end_idx,
                     ToolCallFromJson(st.p.tool_buffer \o Take(buffer, end_idx), st.uuids))
        ELSE [st EXCEPT !.p.tool_buffer = @ \o buffer,
                        !.p.buffer = <<>>,
                        !.go = FALSE]

\* a NORMAL branch that takes <think> whenever it is in the buffer, wherever
\* <tool_call> is
NormalStepThinkFirst(st) ==
    LET buffer == st.p.buffer
        think_idx == Find(buffer, THINK_OPEN)
        tool_idx == Find(buffer, TOOL_OPEN)
        tag_type == IF think_idx # -1 THEN "think"
                    ELSE IF tool_idx # -1 THEN "tool"
                    ELSE "none"
        first_tag_idx == IF tag_type = "think" THEN think_idx
                         ELSE IF tag_type = "tool" THEN tool_idx
                         ELSE -1
    IN  IF first_tag_idx # -1
        THEN [st EXCEPT !.out = IF first_tag_idx > 0
                                THEN Append(@, TextPart(Take(buffer, first_tag_idx))) ELSE @,
                        !.p.buffer = Drop(buffer, first_tag_idx + TagLen(tag_type)),
                        !.p.in_think = IF tag_type = "think" THEN TRUE ELSE @,
                        !.p.in_tool = IF tag_type = "think" THEN @ ELSE TRUE]
        ELSE IF Len(buffer) > keep_size
        THEN [st EXCEPT !.out = Append(@, TextPart(ButLastN(buffer, keep_size))),
                        !.p.buffer = LastN(buffer, keep_size),
                        !.go = FALSE]
        ELSE [st EXCEPT !.go = FALSE]

\* the NORMAL branch of the loop
NormalStep(st) ==
    LET buffer == st.p.buffer
        think_idx == Find(buffer, THINK_OPEN)
        tool_idx == Find(buffer, TOOL_OPEN)
        tag_type == IF think_idx # -1 /\ (tool_idx = -1 \/ think_idx < tool_idx) THEN "think"
                    ELSE IF tool_idx # -1 THEN "tool"
                    ELSE "none"
        first_tag_idx == IF tag_type = "think" THEN think_idx
                         ELSE IF tag_type = "tool" THEN tool_idx
                         ELSE -1
    IN  IF first_tag_idx # -1
        THEN [st EXCEPT !.out = IF first_tag_idx > 0
                                THEN Append(@, TextPart(Take(buffer, first_tag_idx))) ELSE @,
                        !.p.buffer = Drop(buffer, first_tag_idx + TagLen(tag_type)),
                        !.p.in_think = IF tag_type = "think" THEN TRUE ELSE @,
                        !.p.in_tool = IF tag_type = "think" THEN @ ELSE TRUE]
        ELSE IF Len(buffer) > keep_size
        THEN [st EXCEPT !.out = Append(@, TextPart(ButLastN(buffer, keep_size))),
                        !.p.buffer = LastN(buffer, keep_size),
                        !.go = FALSE]
        ELSE [st EXCEPT !.go = FALSE]

\* one iteration of the loop: the branch of the parser's state
Iteration(st) ==
    IF st.p.in_think THEN ThinkStep(st)
    ELSE IF st.p.in_tool THEN ToolStep(st)
    ELSE NormalStep(st)

RECURSIVE ProcessLoop(_)
\* while self.buffer: ...
ProcessLoop(st) ==
    IF st.p.buffer = <<>> \/ ~st.go THEN st
    ELSE ProcessLoop(Iteration(st))

\* StreamTagParser.process(chunk), drained: [p: the parser after, out: the parts, uuids]
process(p, chunk, uuids) ==
    ProcessLoop([p |-> [p EXCEPT !.buffer = @ \o chunk], out |-> <<>>, uuids |-> uuids, go |-> TRUE])

\* a flush() that has one policy for every state: what is left is text
flushAsText(p) ==
    (IF p.in_tool /\ p.tool_buffer # <<>> THEN <<TextPart(p.tool_buffer)>> ELSE <<>>)
    \o (IF p.buffer # <<>> THEN <<TextPart(p.buffer)>> ELSE <<>>)

\* StreamTagParser.flush(), drained: the parts (the parser is left as it is)
flush(p) ==
    IF p.in_think THEN (IF p.buffer # <<>> THEN <<ThinkPart(p.buffer)>> ELSE <<>>)
    ELSE IF p.in_tool
    THEN (IF p.tool_buffer # <<>> THEN <<TextPart(p.tool_buffer)>> ELSE <<>>)
         \o (IF p.buffer # <<>> THEN <<TextPart(p.buffer)>> ELSE <<>>)
    ELSE (IF p.buffer # <<>> THEN <<TextPart(p.buffer)>> ELSE <<>>)

(***************************************************************************)
(* _parse_content_with_tags: the whole-body scanner, by regular expressions *)
(***************************************************************************)

\* the end of the first match of open(.*?)close at or after offset from, given the
\* offset o of the first opener (-1: none): the offset after its closer, else -1
MatchEnd(text, open, close, o) ==
    IF o = -1 THEN -1
    ELSE IF FindFrom(text, close, o + Len(open)) = -1 THEN -1
    ELSE FindFrom(text, close, o + Len(open)) + Len(close)

\* the group of the match that starts at offset o and ends at offset e
MatchBody(text, open, close, o, e) == SubSeq(text, o + Len(open) + 1, e - Len(close))

RECURSIVE FindAllFrom(_, _, _, _)
\* pattern.findall(text) for the pattern open(.*?)close with DOTALL, from offset from:
\* the leftmost opener that has a closer after it, up to the nearest closer, and on
\* from the end of that match
FindAllFrom(text, open, close, from) ==
    IF MatchEnd(text, open, close, FindFrom(text, open, from)) = -1 THEN <<>>
    ELSE <<MatchBody(text, open, close, FindFrom(text, open, from),
                     MatchEnd(text, open, close, FindFrom(text, open, from)))>>
         \o FindAllFrom(text, open, close,
                        MatchEnd(text, open, close, FindFrom(text, open, from)))

RECURSIVE SubAllFrom(_, _, _, _)
\* pattern.sub("", text) for the same pattern: the text from offset from on with every
\* match removed
SubAllFrom(text, open, close, from) ==
    IF MatchEnd(text, open, close, FindFrom(text, open, from)) = -1
    THEN SubSeq(text, from + 1, Len(text))
    ELSE SubSeq(text, from + 1, FindFrom(text, open, from))
         \o SubAllFrom(text, open, close,
                       MatchEnd(text, open, close, FindFrom(text, open, from)))

\* THINK_TAG_PATTERN.findall(content)
think_matches(content) == FindAllFrom(content, THINK_OPEN, THINK_CLOSE, 0)

\* TOOL_CALL_TAG_PATTERN.findall(content): the \s* on both sides of the group leave
\* the group without leading and trailing whitespace
tool_call_matches(content) ==
    LET found == FindAllFrom(content, TOOL_OPEN, TOOL_CLOSE, 0)
    IN  [k \in 1..Len(found) |-> Strip(found[k])]

RECURSIVE tool_calls_of(_, _)
RECURSIVE tool_calls_then(_, _, _)
\* for match in tool_call_matches: json.loads(match.strip()), and a tool call appended
\* if it is a dict with a name; invalid JSON is skipped
tool_calls_of(matches, uuids) ==
    IF matches = <<>> THEN <<>>
    ELSE tool_calls_then(ToolCallFromData(json_loads(Strip(matches[1])), uuids),
                         Tail(matches), uuids)

\* the tool call (or none) of the first match, then those of the other matches
tool_calls_then(made, rest, uuids) == made \o tool_calls_of(rest, uuids + Len(made))

\* text_content: both patterns removed, the think pattern first, then strip()
text_content_of(content) ==
    Strip(SubAllFrom(SubAllFrom(content, THINK_OPEN, THINK_CLOSE, 0),
                     TOOL_OPEN, TOOL_CLOSE, 0))

\* _parse_content_with_tags(content): (thinking_content, text_content, tool_calls);
\* None is the empty text
parse_content_with_tags(content, uuids) ==
    [thinking |-> Join(think_matches(content), <<"\n">>),
     text |-> text_content_of(content),
     tool_calls |-> tool_calls_of(tool_call_matches(content), uuids)]

(***************************************************************************)
(* Bodega: the provider object and its configuration.  The dicts           *)
(* _generation_kwargs and _chat_template_kwargs and the lists they hold    *)
(* are objects with an identity, so that two providers can refer to one    *)
(* object.  A value of a dict is absent, a scalar or the identity of a     *)
(* list ("stop" is the key that holds a list).                             *)
(***************************************************************************)

Keys == {"temperature", "stop", "enable_thinking", "reasoning_effort"}

Absent == [t |-> "absent", s |-> "", c |-> 0]
Scalar(s) == [t |-> "scalar", s |-> s, c |-> 0]
Ref(c) == [t |-> "ref", s |-> "", c |-> c]

\* {} and the dict with one more item
EmptyItems == [k \in Keys |-> Absent]
DictCell(items) == [kind |-> "dict", items |-> items, list |-> <<>>]
ListCell(list) == [kind |-> "list", items |-> EmptyItems, list |-> list]

\* bool(d) of a dict
Truthy(items) == \E k \in Keys : items[k].t # "absent"

\* a Bodega object
Provider(thinking_effort, generation_kwargs, chat_template_kwargs) ==
    [thinking_effort |-> thinking_effort,
     generation_kwargs |-> generation_kwargs,
     chat_template_kwargs |-> chat_template_kwargs]

\* copy.copy(d) of a dict: a new dict whose values are the same objects
shallow_copy(h, c) == [heap |-> Append(h, h[c]), id |-> Len(h) + 1]

\* copy.deepcopy(d) of a dict: a new dict, the list it holds copied too
deepcopy(h, c) ==
    IF h[c].items["stop"].t = "ref"
    THEN [heap |-> h \o <<h[h[c].items["stop"].c],
                          DictCell([h[c].items EXCEPT !["stop"] = Ref(Len(h) + 1)])>>,
          id |-> Len(h) + 2]
    ELSE [heap |-> Append(h, h[c]), id |-> Len(h) + 1]

\* d.update(kwargs) for a kwargs of one item, in place
update(h, c, key, value) == [h EXCEPT ![c].items[key] = value]

\* with_thinking(effort), from the two deep copies (the chat-template one first);
\* [heap, provider]
with_thinking_from(tk, gk, effort) ==
    [heap |-> gk.heap, provider |-> Provider(effort, gk.id, tk.id)]

with_thinking(h, self, effort) ==
    with_thinking_from(deepcopy(h, self.chat_template_kwargs),
                       deepcopy(deepcopy(h, self.chat_template_kwargs).heap,
                                self.generation_kwargs),
                       effort)

\* with_generation_kwargs(**kwargs): copy.copy(self), the generation kwargs deep
\* copied and updated, then the chat-template kwargs deep copied
with_generation_kwargs_from(gk, tk, self) ==
    [heap |-> tk.heap, provider |-> Provider(self.thinking_effort, gk.id, tk.id)]

updated_copy(copied, key, value) ==
    [heap |-> update(copied.heap, copied.id, key, value), id |-> copied.id]

with_generation_kwargs(h, self, key, value) ==
    with_generation_kwargs_from(
        updated_copy(deepcopy(h, self.generation_kwargs), key, value),
        deepcopy(updated_copy(deepcopy(h, self.generation_kwargs), key, value).heap,
                 self.chat_template_kwargs),
        self)

\* with_chat_template_kwargs(**kwargs): the same with the two dicts exchanged
with_chat_template_kwargs_from(tk, gk, self) ==
    [heap |-> gk.heap, provider |-> Provider(self.thinking_effort, gk.id, tk.id)]

with_chat_template_kwargs(h, self, key, value) ==
    with_chat_template_kwargs_from(
        updated_copy(deepcopy(h, self.chat_template_kwargs), key, value),
        deepcopy(updated_copy(deepcopy(h, self.chat_template_kwargs), key, value).heap,
                 self.generation_kwargs),
        self)

\* the thinking effort is set and is not "off"
Thinking(self) == self.thinking_effort \notin {"None", "off"}

\* generate(): TRUE when the request body gets a chat_template_kwargs dict
HasTemplateKwargs(h, self) == Truthy(h[self.chat_template_kwargs].items) \/ Thinking(self)

\* generate(): the items of request_body["chat_template_kwargs"]:
\* dict(self._chat_template_kwargs) or {}, then the two thinking items
template_items(h, self) ==
    IF Thinking(self)
    THEN [(IF Truthy(h[self.chat_template_kwargs].items)
           THEN h[self.chat_template_kwargs].items ELSE EmptyItems)
          EXCEPT !["enable_thinking"] = Scalar("True"),
                 !["reasoning_effort"] = Scalar(self.thinking_effort)]
    ELSE h[self.chat_template_kwargs].items

\* generate(): the heap once the request body is built
heap_after_request(h, self) ==
    IF HasTemplateKwargs(h, self) THEN Append(h, DictCell(template_items(h, self))) ELSE h

\* generate(): the request body: the items request_body.update(self._generation_kwargs)
\* put into it, and the identity of its chat_template_kwargs dict (0: none)
build_request(h, self) ==
    [set |-> TRUE,
     generation |-> h[self.generation_kwargs].items,
     chat_template_kwargs |-> IF HasTemplateKwargs(h, self) THEN Len(h) + 1 ELSE 0]

NoRequest == [set |-> FALSE, generation |-> EmptyItems, chat_template_kwargs |-> 0]

\* a value with the list it refers to in place of the list's identity
Resolved(h, value) ==
    IF value.t = "ref" THEN [t |-> "list", s |-> "", c |-> 0, list |-> h[value.c].list]
    ELSE [t |-> value.t, s |-> value.s, c |-> 0, list |-> <<>>]

\* the configuration of a provider: its thinking effort and the contents of its
\* generation kwargs and chat-template kwargs
Configuration(h, self) ==
    [thinking_effort |-> self.thinking_effort,
     generation_kwargs |-> [k \in Keys |-> Resolved(h, h[self.generation_kwargs].items[k])],
     chat_template_kwargs |-> [k \in Keys |-> Resolved(h, h[self.chat_template_kwargs].items[k])]]

\* Bodega(...): no thinking effort and two empty dicts
BodegaInit ==
    /\ heap = <<DictCell(EmptyItems), DictCell(EmptyItems)>>
    /\ providers = <<Provider("None", 1, 2)>>
    /\ request_body = NoRequest
    /\ recorded = <<Configuration(heap, Provider("None", 1, 2))>>
    /\ origin = <<0>>

(***************************************************************************)
(* Parser runs: a text is delivered to a fresh StreamTagParser in chunks   *)
(* cut at arbitrary offsets, then flush() is called once.                  *)
(* The text is a sequence of segments: plain text, a closed <think> or     *)
(* <tool_call> region, or (last) a region left open.                       *)
(***************************************************************************)

\* most segments in a text
MaxSegs == 2

\* most deliveries of a text
MaxDeliveries == 2

TxtShort == <<"a","b">>
TxtLong == <<"a","b","c","d","e","f","g","h","i","j","k","l","m","n","o","p","q">>
BodyCall == <<"{","\"","n","a","m","e","\"",":","\"","x","\"",",","\"","a","r","g","u","m","e","n","t","s","\"",":","{","\"","a","\"",":","1","}","}">>
BodyBad == <<"{","b","a","d">>
BodyPartial == <<"{","\"","n","a">>

Seg(k, body) == [k |-> k, body |-> body]

ClosedSegs ==
    { Seg("text", b) : b \in {TxtShort, TxtLong} }
    \cup { Seg("think", b) : b \in {TxtShort, TxtLong} }
    \cup { Seg("tool", b) : b \in {BodyCall, BodyBad} }

OpenSegs ==
    { Seg("openthink", TxtShort), Seg("openthink", TxtLong),
      Seg("opentool", BodyPartial), Seg("opentool", <<>>) }

RECURSIVE SeqsUpTo(_, _)
\* the sequences over S of length at most n
SeqsUpTo(S, n) ==
    IF n = 0 THEN {<<>>}
    ELSE LET shorter == SeqsUpTo(S, n - 1)
         IN  shorter \cup { Append(q, x) : q \in { r \in shorter : Len(r) = n - 1 }, x \in S }

\* a tool-call body with both openers in it
BodyOpeners == <<"{">> \o THINK_OPEN \o TOOL_OPEN \o <<"}">>

ParserSegs == ClosedSegs \cup { Seg("tool", BodyOpeners) }

\* closed segments, then at most one open region at the end
Docs ==
    LET closed == SeqsUpTo(ParserSegs, MaxSegs)
    IN  closed \cup { Append(q, o) : q \in { r \in closed : Len(r) < MaxSegs }, o \in OpenSegs }

RenderSeg(g) ==
    IF g.k = "text" THEN g.body
    ELSE IF g.k = "think" THEN THINK_OPEN \o g.body \o THINK_CLOSE
    ELSE IF g.k = "tool" THEN TOOL_OPEN \o g.body \o TOOL_CLOSE
    ELSE IF g.k = "openthink" THEN THINK_OPEN \o g.body
    ELSE TOOL_OPEN \o g.body

RECURSIVE Render(_)
Render(d) == IF d = <<>> THEN <<>> ELSE RenderSeg(d[1]) \o Render(Tail(d))

\* the text of the run
input == Render(doc)

\* TokenUsage(input_other=..., output=...), and None
TokenUsage(input_other, output) == [set |-> TRUE, input_other |-> input_other, output |-> output]
NoUsage == [set |-> FALSE, input_other |-> 0, output |-> 0]

\* the facade's variables in a run that has no facade
FacadeIdle ==
    /\ lines = <<>>
    /\ line_pos = 0
    /\ iter = 0
    /\ gen = "unstarted"
    /\ resp_id = 0
    /\ usage = NoUsage
    /\ has_api_parsed_fields = FALSE
    /\ produced = <<>>
    /\ fed_lines = {}
    /\ stops = 0
    /\ aiters = {}
    /\ awaiting = FALSE
    /\ call = "idle"
    /\ client = "none"
    /\ requests = 0
    /\ body_read = FALSE
    /\ error = "none"

\* a usage object; absent keys read through .get(key, 0)
Usage(has_pt, pt, has_ct, ct) ==
    [present |-> TRUE, has_pt |-> has_pt, prompt_tokens |-> pt,
     has_ct |-> has_ct, completion_tokens |-> ct]
UsageAbsent ==
    [present |-> FALSE, has_pt |-> FALSE, prompt_tokens |-> 0,
     has_ct |-> FALSE, completion_tokens |-> 0]

\* a response body with choices[0].message: reasoning_content, tool_calls and content;
\* an absent or empty field is the empty sequence
Message(reasoning_content, tool_calls, content) ==
    [set |-> TRUE, id |-> 0, usage |-> UsageAbsent, choices |-> "one",
     reasoning_content |-> reasoning_content,
     tool_calls |-> tool_calls, content |-> content]

\* the body with its top-level fields: id (0: absent), usage, and choices ("absent",
\* "empty": the empty list, or "one": a list whose first entry holds the message)
Body(head, m) == [m EXCEPT !.id = head.id, !.usage = head.usage, !.choices = head.choices]

\* no response body converted
NoMessage ==
    [set |-> FALSE, id |-> 0, usage |-> UsageAbsent, choices |-> "absent",
     reasoning_content |-> <<>>, tool_calls |-> <<>>, content |-> <<>>]

WholeIdle ==
    /\ message = NoMessage
    /\ whole = <<>>

\* call_api() returned None, or has not been called
NoReply == [ok |-> FALSE, content |-> <<>>, tool_calls |-> <<>>]

\* the agent's variables in a run that has no agent
AgentIdle ==
    /\ messages = <<>>
    /\ at = "off"
    /\ message_response = NoReply
    /\ tool_pos = 0
    /\ ran = <<>>
    /\ stream = <<>>
    /\ api_calls = 0

InitParser ==
    /\ doc \in Docs
    /\ fed = 0
    /\ cuts = <<>>
    /\ tag_parser = NewTagParser
    /\ parts = <<>>
    /\ flushed = <<>>
    /\ phase = "feeding"
    /\ uuid_drawn = 0
    /\ FacadeIdle
    /\ WholeIdle
    /\ AgentIdle
    /\ BodegaInit

\* parts += list(parser.process(chunk)) for the next n characters of the text
Deliver(n) ==
    /\ phase = "feeding"
    /\ Len(cuts) < MaxDeliveries
    /\ fed + n <= Len(input)
    /\ Len(cuts) = MaxDeliveries - 1 => fed + n = Len(input)
    /\ LET r == process(tag_parser, SubSeq(input, fed + 1, fed + n), uuid_drawn)
       IN  /\ tag_parser' = r.p
           /\ parts' = parts \o r.out
           /\ uuid_drawn' = r.uuids
    /\ fed' = fed + n
    /\ cuts' = Append(cuts, fed + n)
    /\ UNCHANGED <<doc, flushed, phase>>
    /\ UNCHANGED facadeVars

\* parts += list(parser.flush()) once the whole text is delivered
Flush ==
    /\ phase = "feeding"
    /\ fed = Len(input)
    /\ flushed' = flush(tag_parser)
    /\ parts' = parts \o flush(tag_parser)
    /\ phase' = "done"
    /\ UNCHANGED <<doc, fed, cuts, tag_parser, uuid_drawn>>
    /\ UNCHANGED facadeVars

NextParser ==
    \/ \E n \in 1..Len(input) : Deliver(n)
    \/ Flush

SpecParser == InitParser /\ [][NextParser]_vars

(***************************************************************************)
(* Reading a run                                                           *)
(***************************************************************************)

RECURSIVE ConcatKind(_, _)
\* the texts of the fragments of one kind, concatenated in order
ConcatKind(ps, kind) ==
    IF ps = <<>> THEN <<>>
    ELSE (IF ps[1].kind = kind THEN ps[1].text ELSE <<>>) \o ConcatKind(Tail(ps), kind)

CountKind(ps, kind) == Cardinality({ i \in 1..Len(ps) : ps[i].kind = kind })

RECURSIVE Coalesce(_)
\* the fragments with every run of adjacent Text (or adjacent Think) fragments joined
\* into one and the drawn identifiers left out: what a transcript of the run shows
Coalesce(ps) ==
    IF ps = <<>> THEN <<>>
    ELSE LET rest == Coalesce(Tail(ps))
             head == [ps[1] EXCEPT !.id = NoId]
         IN  IF rest # <<>> /\ head.kind \in {"Text", "Think"} /\ rest[1].kind = head.kind
             THEN <<[head EXCEPT !.text = @ \o rest[1].text]>> \o Tail(rest)
             ELSE <<head>> \o rest

\* the fragments of a fresh parser fed the whole text by one process() call, then flush()
OneDelivery(text) ==
    LET r == process(NewTagParser, text, 0) IN r.out \o flush(r.p)

Balanced(d) == \A i \in 1..Len(d) : d[i].k \in {"text", "think", "tool"}

ThinkSegs(d) == { i \in 1..Len(d) : d[i].k = "think" }

\* the decoded value of {"a":1}
ValueA1 == JObj(<< <<"a">> >>, << JNum(<<"1">>) >>)

(***************************************************************************)
(* Claims about the tag parser (checked under SpecParser)                  *)
(***************************************************************************)

\* C1: for a text whose regions are all closed and that holds one <think>...</think>
\* region, however the text was cut into deliveries, the Think fragments emitted up to
\* and including flush() concatenate to exactly the inner text of the region.
C1_ThinkRoundTrip ==
    (phase = "done" /\ Balanced(doc) /\ Cardinality(ThinkSegs(doc)) = 1)
        => ConcatKind(parts, "Think") = doc[CHOOSE i \in ThinkSegs(doc) : TRUE].body

\* C2: a text delivered in two pieces cut at any offset yields, after flush(), the same
\* ordered fragments as the text delivered in one piece. Fragments are compared
\* joined (adjacent Text with Text, Think with Think), which the claim implies.
C2_ChunkBoundaryInvariance ==
    (phase = "done" /\ Len(cuts) = 2)
        => Coalesce(parts) = Coalesce(OneDelivery(input))

\* C3: a well-formed <tool_call>{valid call JSON}</tool_call> delivered in two chunks
\* cut at any offset yields exactly one ToolCall and nothing of the block as Text.
C3_SplitToolCallRecognized ==
    (phase = "done" /\ doc = <<Seg("tool", BodyCall)>> /\ Len(cuts) = 2)
        => /\ CountKind(parts, "ToolCall") = 1
           /\ CountKind(parts, "Text") = 0

\* C4: <tool_call>{"name":"x","arguments":{"a":1}}</tool_call> streamed in one delivery
\* yields exactly one fragment, a ToolCall named x whose arguments decode to {"a":1}.
C4_ToolCallExample ==
    (phase = "done" /\ doc = <<Seg("tool", BodyCall)>> /\ Len(cuts) = 1)
        => /\ Len(parts) = 1
           /\ parts[1].kind = "ToolCall"
           /\ parts[1].name = <<"x">>
           /\ json_loads(parts[1].arguments).ok
           /\ json_loads(parts[1].arguments).v = ValueA1

\* C5: when the text ends inside a <tool_call> region that has no closer, flush()
\* emits the raw content of the region (what follows the opener) as Text.
C5_UnterminatedToolSalvaged ==
    (phase = "done" /\ doc # <<>> /\ doc[Len(doc)].k = "opentool")
        => flushed = IF doc[Len(doc)].body = <<>> THEN <<>>
                     ELSE <<TextPart(doc[Len(doc)].body)>>

\* C6: a closed <tool_call> block whose body is not valid JSON yields no fragment, and
\* what follows its closer is parsed as if the block had not been there: the run's
\* fragments are those of the following text alone.
C6_InvalidToolBlockDropped ==
    (/\ phase = "done"
     /\ doc # <<>>
     /\ doc[1] = Seg("tool", BodyBad)
     /\ \A i \in 2..Len(doc) : doc[i].k \in {"text", "think", "openthink"})
        => Coalesce(parts) = Coalesce(OneDelivery(Render(Tail(doc))))

(***************************************************************************)
(* BodegaStreamedMessage over a streamed response.                         *)
(* A line of the transport is a record:                                    *)
(*   kind "blank" (empty after strip), "other" (no "data: " prefix),       *)
(*   "done" (data: [DONE]), "badjson" (payload json.loads rejects),        *)
(*   "nonobject" (payload decodes to a value that is no object), or        *)
(*   "frame": the decoded object, with id (0: absent or empty), usage,     *)
(*   choices (TRUE: a non-empty list whose first entry holds the delta)    *)
(*   and the delta's reasoning_content, tool_calls and content.            *)
(***************************************************************************)

\* the truth value of chunk.get("usage"): a non-empty object
UsageTruthy(u) == u.present /\ (u.has_pt \/ u.has_ct)

\* an entry of delta["tool_calls"]; id 0 and empty name/arguments stand for absent
Entry(index, id, name, arguments) ==
    [index |-> index, id |-> id, name |-> name, arguments |-> arguments]

Line(kind) ==
    [kind |-> kind, id |-> 0, usage |-> UsageAbsent, choices |-> FALSE,
     reasoning_content |-> <<>>, tool_calls |-> <<>>, content |-> <<>>]

\* a frame with choices[0].delta
Delta(id, usage_obj, reasoning_content, tool_calls, content) ==
    [kind |-> "frame", id |-> id, usage |-> usage_obj, choices |-> TRUE,
     reasoning_content |-> reasoning_content, tool_calls |-> tool_calls,
     content |-> content]

\* a frame without choices
Bare(id, usage_obj) == [Line("frame") EXCEPT !.id = id, !.usage = usage_obj]

\* the fragments of an entry if the name and the argument text of a named entry went
\* into two fragments
EntryPartsSplit(tool_call, uuids) ==
    IF tool_call.name # <<>>
    THEN <<ToolCall(IF tool_call.id # 0 THEN UpstreamId(tool_call.id) ELSE SynId(uuids + 1),
                    tool_call.name, <<>>)>>
         \o (IF tool_call.arguments # <<>> THEN <<ToolCallPart(tool_call.arguments)>> ELSE <<>>)
    ELSE IF tool_call.arguments # <<>>
    THEN <<ToolCallPart(tool_call.arguments)>>
    ELSE <<>>

\* the fragments of one entry of delta["tool_calls"]
EntryParts(tool_call, uuids) ==
    IF tool_call.name # <<>>
    THEN <<ToolCall(IF tool_call.id # 0 THEN UpstreamId(tool_call.id) ELSE SynId(uuids + 1),
                    tool_call.name, tool_call.arguments)>>
    ELSE IF tool_call.arguments # <<>>
    THEN <<ToolCallPart(tool_call.arguments)>>
    ELSE <<>>

\* the uuid4() draws of one entry: one when a named entry has no id
EntryDraws(tool_call) == IF tool_call.name # <<>> /\ tool_call.id = 0 THEN 1 ELSE 0

RECURSIVE ToolCallsParts(_, _)
\* for tool_call in delta.get("tool_calls") or []: ... ; [out, uuids]
ToolCallsParts(tool_calls, uuids) ==
    IF tool_calls = <<>> THEN [out |-> <<>>, uuids |-> uuids]
    ELSE LET rest == ToolCallsParts(Tail(tool_calls), uuids + EntryDraws(tool_calls[1]))
         IN  [out |-> EntryParts(tool_calls[1], uuids) \o rest.out, uuids |-> rest.uuids]

\* has_api_parsed_fields after steps 1 (reasoning) and 2 (tool calls) of a delta
FlagAfterNative(delta, flag) ==
    flag \/ delta.reasoning_content # <<>> \/ delta.tool_calls # <<>>

\* step 2 (content) with the "if has_api_parsed_fields" test left out
ContentToParserUnflagged(delta, flag) == delta.content # <<>>

\* step 2 (content) of a delta: TRUE when the content goes to the tag parser
ContentToParser(delta, flag) == delta.content # <<>> /\ ~flag

\* steps 1 and 2 of a delta (reasoning_content, tool_calls), tools being the outcome
\* of the loop over the entries; st is [p: tag_parser, flag, uuids], the result adds
\* out (the parts yielded, in order) and fed (the tag parser was fed)
NativeSteps(delta, st, tools) ==
    [p |-> st.p, flag |-> FlagAfterNative(delta, st.flag), uuids |-> tools.uuids,
     out |-> (IF delta.reasoning_content # <<>>
              THEN <<ThinkPart(delta.reasoning_content)>> ELSE <<>>) \o tools.out,
     fed |-> FALSE]

\* the content went through the tag parser with outcome r
ContentFed(nat, r) ==
    [nat EXCEPT !.p = r.p, !.uuids = r.uuids, !.out = @ \o r.out, !.fed = TRUE]

\* step 3 of a delta (content), nat being the outcome of steps 1 and 2
ContentStep(delta, nat) ==
    IF ContentToParser(delta, nat.flag)
    THEN ContentFed(nat, process(nat.p, delta.content, nat.uuids))
    ELSE IF delta.content # <<>>
    THEN [nat EXCEPT !.out = Append(@, TextPart(delta.content))]
    ELSE nat

\* the body of the loop for one delta
ConvertDelta(delta, st) ==
    ContentStep(delta, NativeSteps(delta, st, ToolCallsParts(delta.tool_calls, st.uuids)))

\* self._usage if the usage were read after the "choices" test instead of before it
UsageAfterChoices(frame, old) ==
    IF frame.choices /\ UsageTruthy(frame.usage)
    THEN TokenUsage(IF frame.usage.has_pt THEN frame.usage.prompt_tokens ELSE 0,
                    IF frame.usage.has_ct THEN frame.usage.completion_tokens ELSE 0)
    ELSE old

\* self._usage if a counter the frame's usage lacks were kept from the usage before
UsageMerged(frame, old) ==
    IF UsageTruthy(frame.usage)
    THEN TokenUsage(IF frame.usage.has_pt THEN frame.usage.prompt_tokens ELSE old.input_other,
                    IF frame.usage.has_ct THEN frame.usage.completion_tokens ELSE old.output)
    ELSE old

\* self._usage after a frame: replaced when the frame's usage is truthy
UsageAfter(frame, old) ==
    IF UsageTruthy(frame.usage)
    THEN TokenUsage(IF frame.usage.has_pt THEN frame.usage.prompt_tokens ELSE 0,
                    IF frame.usage.has_ct THEN frame.usage.completion_tokens ELSE 0)
    ELSE old

\* self._id if a frame without id, while no id is known, gave a placeholder id
IdOrPlaceholder(frame, old) ==
    IF frame.id # 0 THEN frame.id ELSE IF old # 0 THEN old ELSE 3

\* self._id after a frame
IdAfter(frame, old) == IF frame.id # 0 THEN frame.id ELSE old

\* each part with the line it came from (0: from flush())
Tagged(out, n) == [k \in 1..Len(out) |-> [line |-> n, part |-> out[k]]]

\* the end of the generator if flush() were relayed whatever the dialect flag
AfterLoopAlways(g) ==
    IF flush(g.p) = <<>> THEN [g EXCEPT !.gen = "finished"]
    ELSE [g EXCEPT !.produced = @ \o Tagged(flush(g.p), 0), !.gen = "flushed"]

\* the end of the generator after its loop: flush() unless native fields were seen
AfterLoop(g) ==
    IF g.flag \/ flush(g.p) = <<>> THEN [g EXCEPT !.gen = "finished"]
    ELSE [g EXCEPT !.produced = @ \o Tagged(flush(g.p), 0), !.gen = "flushed"]

\* what the loop does with a line if "[DONE]" were not tested for: the sentinel, which
\* is no JSON, is then skipped like any payload that fails to decode
LineClassNoSentinel(line) ==
    IF line.kind = "eof" THEN "end"
    ELSE IF line.kind \in {"blank", "other", "badjson", "done"} THEN "skip"
    ELSE IF line.kind = "nonobject" THEN "raise"
    ELSE "frame"

\* what the loop does with a line if json.loads were not guarded by try/except
LineClassUnguarded(line) ==
    IF line.kind \in {"eof", "done"} THEN "end"
    ELSE IF line.kind \in {"blank", "other"} THEN "skip"
    ELSE IF line.kind \in {"nonobject", "badjson"} THEN "raise"
    ELSE "frame"

\* what the loop does with a line: "end" (the lines are over, or break at [DONE]),
\* "skip" (continue: blank, no "data: " prefix, JSONDecodeError), "raise" (chunk.get on
\* a value that is no object), or "frame" (a decoded object)
LineClass(line) ==
    IF line.kind \in {"eof", "done"} THEN "end"
    ELSE IF line.kind \in {"blank", "other", "badjson"} THEN "skip"
    ELSE IF line.kind = "nonobject" THEN "raise"
    ELSE "frame"

\* the frame's id and usage are taken before its choices are looked at
FrameHeader(g, frame) ==
    [g EXCEPT !.id = IdAfter(frame, @), !.usage = UsageAfter(frame, @), !.gen = "reading"]

\* the same with the frame's fragments put before those of the earlier frames
FrameDeltaFirst(g, r, n) ==
    [g EXCEPT !.p = r.p, !.flag = r.flag, !.uuids = r.uuids,
              !.produced = Tagged(r.out, n) \o @,
              !.fed_lines = IF r.fed THEN @ \cup {n} ELSE @]

\* the frame's delta was converted with outcome r
FrameDelta(g, r, n) ==
    [g EXCEPT !.p = r.p, !.flag = r.flag, !.uuids = r.uuids,
              !.produced = @ \o Tagged(r.out, n),
              !.fed_lines = IF r.fed THEN @ \cup {n} ELSE @]

\* one turn of "async for line in self._response.aiter_lines()" on the n-th line;
\* g holds the generator's state and the facade's fields it writes:
\* [p, flag, uuids, id, usage, produced, fed_lines, gen]
OnLine(g, line, n) ==
    IF LineClass(line) = "end" THEN AfterLoop(g)
    ELSE IF LineClass(line) = "skip" THEN [g EXCEPT !.gen = "reading"]
    ELSE IF LineClass(line) = "raise" THEN [g EXCEPT !.gen = "raised"]
    ELSE IF ~line.choices THEN FrameHeader(g, line)
    ELSE FrameDelta(FrameHeader(g, line),
                    ConvertDelta(line, [p |-> g.p, flag |-> g.flag, uuids |-> g.uuids]), n)

\* __aiter__'s result with the "if self._iter is None" test left out
aiter_fresh(current, made) == made + 1

\* __aiter__'s result: self._iter if it is set, else a new generator (numbered made + 1)
aiter_result(current, made) == IF current = 0 THEN made + 1 ELSE current

(***************************************************************************)
(* Facade runs: a consumer drives one BodegaStreamedMessage over a         *)
(* streamed response whose lines the transport delivers one at a time.     *)
(***************************************************************************)

\* most lines of a response before the transport runs out
MaxLines == 3

\* most StopAsyncIteration results a consumer asks for
MaxStops == 2

Arg1 == <<"1">>
Arg2 == <<"2">>
NameF == <<"f">>
NameG == <<"g">>

\* the frames a response is made of
Frames ==
    { Delta(0, UsageAbsent, <<>>, <<>>, TxtShort),
      Delta(1, UsageAbsent, <<>>, <<>>, THINK_OPEN \o <<"h">>),
      Delta(0, UsageAbsent, <<>>, <<>>, THINK_CLOSE \o TOOL_OPEN),
      Delta(1, UsageAbsent, <<"r">>, <<>>, <<>>),
      Delta(0, UsageAbsent, <<"r">>, <<>>, THINK_OPEN \o <<"h">>),
      Delta(0, UsageAbsent, <<>>, <<Entry(0, 1, NameF, <<>>), Entry(1, 0, NameG, Arg2)>>, <<>>),
      Delta(0, UsageAbsent, <<>>, <<Entry(0, 1, NameF, Arg1)>>, <<>>),
      Delta(0, UsageAbsent, <<>>, <<Entry(1, 2, NameG, <<>>)>>, <<>>),
      Delta(0, UsageAbsent, <<>>, <<Entry(0, 0, <<>>, Arg1)>>, <<>>),
      Delta(0, UsageAbsent, <<>>, <<Entry(1, 0, <<>>, Arg2)>>, <<>>),
      Delta(0, UsageAbsent, <<>>, <<Entry(1, 0, <<>>, Arg1)>>, <<>>),
      Delta(0, UsageAbsent, <<>>, <<Entry(0, 0, <<>>, Arg1), Entry(1, 0, <<>>, Arg2)>>, <<>>),
      Delta(0, UsageAbsent, <<>>, <<Entry(0, 0, <<>>, <<>>)>>, TOOL_OPEN),
      Delta(2, Usage(TRUE, 7, FALSE, 0), <<>>, <<>>, <<"c">>),
      Bare(2, Usage(TRUE, 3, TRUE, 5)),
      Bare(0, Usage(FALSE, 0, FALSE, 0)) }

LineSet ==
    Frames \cup { Line("blank"), Line("other"), Line("badjson"), Line("nonobject"), Line("done") }

Init ==
    /\ doc = <<>>
    /\ fed = 0
    /\ cuts = <<>>
    /\ flushed = <<>>
    /\ phase = "off"
    /\ tag_parser = NewTagParser
    /\ parts = <<>>
    /\ uuid_drawn = 0
    /\ FacadeIdle
    /\ WholeIdle
    /\ AgentIdle
    /\ BodegaInit

\* how "await client.post(...)" and "response.raise_for_status()" end: "ok", or the
\* httpx exception raised ("HTTPError": any httpx.HTTPError that is none of the others)
Outcomes == {"ok", "TimeoutException", "ConnectError", "HTTPStatusError", "HTTPError"}

\* the except clauses of generate(): the exception raised for an httpx exception
Classify(outcome) ==
    IF outcome = "TimeoutException" THEN "APITimeoutError"
    ELSE IF outcome = "ConnectError" THEN "APIConnectionError"
    ELSE IF outcome = "HTTPStatusError" THEN "APIStatusError"
    ELSE "ChatProviderError"

\* the client if generate() kept it for the facade it returns
client_kept(outcome) == IF outcome = "ok" THEN "open" ELSE "closed"

\* the client once "async with httpx.AsyncClient(...) as client" is left, by return or
\* by an exception
client_after_exit(outcome) == "closed"

\* client.post(...) returns a response whose body has been read to its end; a
\* response exists when the call returned or raise_for_status() raised
body_read_by_post(outcome) == outcome \in {"ok", "HTTPStatusError"}

\* generate() of provider p up to "await client.post(...)": the request body is
\* built, the client is entered, the request issued
Post(p) ==
    /\ phase = "off"
    /\ call = "idle"
    /\ request_body' = build_request(heap, providers[p])
    /\ heap' = heap_after_request(heap, providers[p])
    /\ call' = "posting"
    /\ client' = "open"
    /\ requests' = requests + 1
    /\ UNCHANGED <<body_read, error>>
    /\ UNCHANGED <<tag_parser, parts, uuid_drawn, lines, line_pos, iter, gen, resp_id,
                   usage, has_api_parsed_fields, produced, fed_lines, stops, aiters,
                   awaiting>>
    /\ UNCHANGED <<doc, fed, cuts, flushed, phase, wholeVars>>
    /\ UNCHANGED <<providers, recorded, origin, agentVars>>

\* generate() from the end of the POST on: the facade is returned or an error raised
PostDone(outcome) ==
    /\ phase = "off"
    /\ call = "posting"
    /\ call' = IF outcome = "ok" THEN "returned" ELSE "raised"
    /\ error' = IF outcome = "ok" THEN error ELSE Classify(outcome)
    /\ client' = client_after_exit(outcome)
    /\ body_read' = body_read_by_post(outcome)
    /\ UNCHANGED requests
    /\ UNCHANGED <<tag_parser, parts, uuid_drawn, lines, line_pos, iter, gen, resp_id,
                   usage, has_api_parsed_fields, produced, fed_lines, stops, aiters,
                   awaiting>>
    /\ UNCHANGED parserVars

\* the generator's state as OnLine takes it
GenState ==
    [p |-> tag_parser, flag |-> has_api_parsed_fields, uuids |-> uuid_drawn,
     id |-> resp_id, usage |-> usage, produced |-> produced,
     fed_lines |-> fed_lines, gen |-> gen]

\* the fragments yielded by the generator's code but not yet taken by the consumer
pending == SubSeq(produced, Len(parts) + 1, Len(produced))

\* a generator object is made: its locals are fresh and it reads the response from its start
NewGenerator ==
    /\ gen' = "unstarted"
    /\ line_pos' = 0
    /\ tag_parser' = NewTagParser
    /\ has_api_parsed_fields' = FALSE
    /\ awaiting' = FALSE

\* self._iter after __aiter__ (also as called by __anext__ when self._iter is None)
SetIter ==
    LET it == aiter_result(iter, Cardinality(aiters))
    IN  /\ iter' = it
        /\ aiters' = aiters \cup {it}

\* stream.__aiter__()
Aiter ==
    /\ phase = "off"
    /\ call = "returned"
    /\ SetIter
    /\ IF iter' = iter \/ iter = 0
       THEN UNCHANGED <<gen, line_pos, tag_parser, has_api_parsed_fields, awaiting>>
       ELSE NewGenerator
    /\ UNCHANGED <<parts, uuid_drawn, lines, resp_id, usage, produced, fed_lines, stops>>
    /\ UNCHANGED callVars
    /\ UNCHANGED parserVars

\* __anext__ is called: the generator resumes; a fragment of the frame already read, or
\* the end of an ended generator, is returned at once; else the call waits for a line
Anext ==
    /\ phase = "off"
    /\ call = "returned"
    /\ ~awaiting
    /\ IF iter = 0 THEN SetIter ELSE UNCHANGED <<iter, aiters>>
    /\ IF pending # <<>>
       THEN /\ parts' = Append(parts, pending[1].part)
            /\ UNCHANGED <<gen, stops, awaiting>>
       ELSE IF gen \in {"flushed", "finished", "raised"}
       THEN /\ stops < MaxStops
            /\ stops' = stops + 1
            /\ gen' = IF gen = "flushed" THEN "finished" ELSE gen
            /\ UNCHANGED <<parts, awaiting>>
       ELSE /\ awaiting' = TRUE
            /\ UNCHANGED <<parts, gen, stops>>
    /\ UNCHANGED <<tag_parser, uuid_drawn, lines, line_pos, resp_id, usage,
                   has_api_parsed_fields, produced, fed_lines>>
    /\ UNCHANGED callVars
    /\ UNCHANGED parserVars

\* the generator ran on to state g: the waiting __anext__ returns the first fragment it
\* yielded, or raises StopAsyncIteration at its end, or goes on waiting for a line
Resume(g) ==
    /\ tag_parser' = g.p
    /\ has_api_parsed_fields' = g.flag
    /\ uuid_drawn' = g.uuids
    /\ resp_id' = g.id
    /\ usage' = g.usage
    /\ produced' = g.produced
    /\ fed_lines' = g.fed_lines
    /\ gen' = g.gen
    /\ error' = IF g.gen = "raised" THEN "AttributeError" ELSE error
    /\ IF Len(g.produced) > Len(produced)
       THEN /\ parts' = Append(parts, g.produced[Len(parts) + 1].part)
            /\ awaiting' = FALSE
            /\ stops' = stops
       ELSE /\ parts' = parts
            /\ awaiting' = (g.gen = "reading")
            /\ stops' = IF g.gen = "finished" THEN stops + 1 ELSE stops

\* the generator, resumed by a waiting __anext__, gets the next line from the transport
\* and runs to its next yield, its end, an exception, or the next wait for a line
ReadLine(line) ==
    /\ phase = "off"
    /\ awaiting
    /\ gen \in {"unstarted", "reading"}
    /\ IF line_pos < Len(lines)
       THEN line = lines[line_pos + 1] /\ UNCHANGED lines
       ELSE /\ line.kind # "eof" => Len(lines) < MaxLines
            /\ lines' = Append(lines, line)
    /\ line_pos' = line_pos + 1
    /\ Resume(OnLine(GenState, line, line_pos + 1))
    /\ UNCHANGED <<iter, aiters, call, client, requests, body_read>>
    /\ UNCHANGED parserVars

Next ==
    \/ \E p \in 1..Len(providers) : Post(p)
    \/ \E outcome \in Outcomes : PostDone(outcome)
    \/ Aiter
    \/ Anext
    \/ \E line \in LineSet \cup {Line("eof")} : ReadLine(line)

Spec == Init /\ [][Next]_vars

(***************************************************************************)
(* Reading a facade run                                                    *)
(***************************************************************************)

\* the lines the generator has read so far that are frames with a delta
DeltaLines == { n \in 1..line_pos : lines[n].kind = "frame" /\ lines[n].choices }

\* the frame yields a native reasoning fragment or a native tool-call fragment
YieldsNative(frame) ==
    \/ frame.reasoning_content # <<>>
    \/ \E k \in 1..Len(frame.tool_calls) :
          frame.tool_calls[k].name # <<>> \/ frame.tool_calls[k].arguments # <<>>

\* the fragments the generator produced while on line n, in order
PartsOfLine(n) ==
    LET own == SelectSeq(produced, LAMBDA e : e.line = n)
    IN  [k \in 1..Len(own) |-> own[k].part]

\* the sequence has been exhausted: the generator ended and the consumer was told so
Exhausted == gen = "finished" /\ stops >= 1

\* the lines read so far that are frames (decoded objects)
FrameLines == { n \in 1..line_pos : lines[n].kind = "frame" }

\* the terminal frame: the last frame read
TerminalLine == CHOOSE n \in FrameLines : \A m \in FrameLines : m <= n

RECURSIVE AllEntries(_, _)
\* the entries of delta["tool_calls"] of lines n..line_pos, in arrival order
AllEntries(n, last) ==
    IF n > last THEN <<>>
    ELSE (IF lines[n].kind = "frame" /\ lines[n].choices THEN lines[n].tool_calls ELSE <<>>)
         \o AllEntries(n + 1, last)

RECURSIVE ArgumentsAt(_, _)
\* the argument texts delivered for positional index idx, concatenated in arrival order
ArgumentsAt(entries, idx) ==
    IF entries = <<>> THEN <<>>
    ELSE (IF entries[1].index = idx THEN entries[1].arguments ELSE <<>>)
         \o ArgumentsAt(Tail(entries), idx)

RECURSIVE consumer_join(_, _)
\* the consumer's join over the fragments it received: a ToolCall opens a call, and an
\* argument fragment, which carries its text and nothing else, extends the call opened
\* most recently; the result is the argument text of each call, in opening order
consumer_join(ps, calls) ==
    IF ps = <<>> THEN calls
    ELSE IF ps[1].kind = "ToolCall"
    THEN consumer_join(Tail(ps), Append(calls, ps[1].arguments))
    ELSE IF ps[1].kind = "ToolCallPart" /\ calls # <<>>
    THEN consumer_join(Tail(ps), [calls EXCEPT ![Len(calls)] = @ \o ps[1].text])
    ELSE consumer_join(Tail(ps), calls)

\* the stream opens call 0 and then call 1, and all else it delivers for them are
\* argument-only deltas
TwoCallsOpened(entries) ==
    /\ Len(entries) >= 3
    /\ entries[1].name # <<>> /\ entries[1].index = 0
    /\ entries[2].name # <<>> /\ entries[2].index = 1
    /\ \A k \in 3..Len(entries) : entries[k].name = <<>> /\ entries[k].arguments # <<>>

(***************************************************************************)
(* Claims about the facade (checked under Spec)                            *)
(***************************************************************************)

\* C7: once a frame of the stream has yielded a native reasoning or tool-call fragment,
\* the dialect flag is set and stays set, and the content of that frame and of every
\* later frame is emitted as exactly one Text fragment equal to the content, tags and
\* all, the last fragment of its frame; the tag parser is not fed by any of them.
C7_NativeThenPlainText ==
    \A n \in DeltaLines :
        YieldsNative(lines[n]) =>
            /\ has_api_parsed_fields
            /\ \A m \in DeltaLines :
                  (m >= n /\ lines[m].content # <<>>) =>
                      /\ m \notin fed_lines
                      /\ PartsOfLine(m) # <<>>
                      /\ PartsOfLine(m)[Len(PartsOfLine(m))] = TextPart(lines[m].content)
                      /\ CountKind(PartsOfLine(m), "Text") = 1
                      /\ CountKind(PartsOfLine(m), "Think")
                           = (IF lines[m].reasoning_content # <<>> THEN 1 ELSE 0)

\* a native frame was followed by a frame whose content holds a literal opener, and
\* the consumer received that content as a Text fragment
C7_Witness ==
    \E n \in DeltaLines : \E m \in DeltaLines :
        /\ n < m
        /\ YieldsNative(lines[n])
        /\ Find(lines[m].content, THINK_OPEN) # -1
        /\ \E k \in 1..Len(parts) : parts[k] = TextPart(lines[m].content)

\* C8: when only the terminal frame (the last frame before the terminator) carries a
\* usage object, then once the fragment sequence is exhausted the usage accessor holds
\* exactly that frame's prompt_tokens and completion_tokens (an absent count reads 0).
C8_TerminalUsage ==
    (/\ Exhausted
     /\ FrameLines # {}
     /\ UsageTruthy(lines[TerminalLine].usage)
     /\ \A n \in FrameLines : n # TerminalLine => ~lines[n].usage.present)
        => /\ usage.set
           /\ lines[TerminalLine].usage.has_pt
                => usage.input_other = lines[TerminalLine].usage.prompt_tokens
           /\ ~lines[TerminalLine].usage.has_pt => usage.input_other = 0
           /\ lines[TerminalLine].usage.has_ct
                => usage.output = lines[TerminalLine].usage.completion_tokens
           /\ ~lines[TerminalLine].usage.has_ct => usage.output = 0

\* a stream of two frames, the second a frame without choices that carries both counts,
\* has been exhausted
C8_Witness ==
    /\ Exhausted
    /\ Cardinality(FrameLines) = 2
    /\ \A n \in FrameLines : n # TerminalLine => ~lines[n].usage.present
    /\ ~lines[TerminalLine].choices
    /\ lines[TerminalLine].usage.has_pt /\ lines[TerminalLine].usage.has_ct
    /\ usage = TokenUsage(3, 5)

\* C9: when a stream opens the calls at positional indices 0 and 1 and then delivers
\* argument deltas for them, in one frame or in several, in any order, then after the
\* consumer's join each call holds the concatenation, in arrival order, of exactly the
\* argument texts delivered for its own index.
C9_JoinByIndex ==
    (/\ Exhausted
     /\ Len(parts) = Len(produced)
     /\ TwoCallsOpened(AllEntries(1, line_pos)))
        => consumer_join(parts, <<>>)
             = << ArgumentsAt(AllEntries(1, line_pos), 0),
                  ArgumentsAt(AllEntries(1, line_pos), 1) >>

\* C10: the fragment sequence is single-pass: __aiter__ never replaces the iterator it
\* returned before, and once the sequence is exhausted no call of __aiter__ or
\* __anext__ yields a fragment, reads a line or runs the decoder again.
C10_SinglePass ==
    [][ /\ iter # 0 => iter' = iter
        /\ Cardinality(aiters') <= 1
        /\ Exhausted =>
              /\ parts' = parts
              /\ produced' = produced
              /\ lines' = lines
              /\ line_pos' = line_pos
              /\ tag_parser' = tag_parser
              /\ gen' = gen ]_vars

\* the consumer received fragments, was told of the end, and asked again
C10_Witness ==
    /\ gen = "finished"
    /\ stops = MaxStops
    /\ parts # <<>>
    /\ line_pos > 0
    /\ aiters = {iter}

\* the terminator sentinel is among the lines read
DoneRead == \E n \in 1..line_pos : lines[n].kind = "done"

\* C11: once the line "data: [DONE]" has been read, the reader reads no further line:
\* no step pulls a line from the transport, produces a fragment, or changes the id, the
\* usage, the dialect flag or the tag parser.
C11_StopAtTerminator ==
    [][ DoneRead =>
          /\ line_pos' = line_pos
          /\ lines' = lines
          /\ produced' = produced
          /\ resp_id' = resp_id
          /\ usage' = usage
          /\ has_api_parsed_fields' = has_api_parsed_fields
          /\ tag_parser' = tag_parser ]_vars

\* the sentinel was read after a frame, the consumer took every fragment, was told of
\* the end and asked again
C11_Witness ==
    /\ DoneRead
    /\ line_pos >= 2
    /\ lines[1].kind = "frame"
    /\ produced # <<>>
    /\ Len(parts) = Len(produced)
    /\ stops = MaxStops

\* a line the reader passes over: blank, without the prefix, failing to decode, or a
\* frame without choices
PassedOver(line) ==
    \/ line.kind \in {"blank", "other", "badjson"}
    \/ line.kind = "frame" /\ ~line.choices

\* C12: reading a line that is blank, lacks the "data: " prefix or fails to decode, or a
\* frame without choices, produces no fragment and leaves the tag parser (state and
\* buffers) and the dialect flag as they were; the generator is not ended by it and
\* goes on to ask the transport for the next line.
C12_SkippedLines ==
    [][ (line_pos' = line_pos + 1 /\ PassedOver(lines'[line_pos'])) =>
          /\ produced' = produced
          /\ parts' = parts
          /\ tag_parser' = tag_parser
          /\ has_api_parsed_fields' = has_api_parsed_fields
          /\ gen' = "reading"
          /\ awaiting' ]_vars

\* after a line that failed to decode and a frame without choices, a later frame was
\* processed and produced a fragment, with text pending in the tag parser throughout
C12_Witness ==
    /\ line_pos = 3
    /\ lines[1].kind = "badjson"
    /\ lines[2].kind = "frame" /\ ~lines[2].choices
    /\ \E k \in 1..Len(produced) : produced[k].line = 3

\* the four kinds a fatal failure is surfaced as
FourKinds == {"APIConnectionError", "APITimeoutError", "APIStatusError", "ChatProviderError"}

\* C13: a fatal failure of a decode reaches the caller as one of APIConnectionError,
\* APITimeoutError, APIStatusError and ChatProviderError, whether it is raised by
\* generate() or while the fragments are drawn, and a call issues at most one request.
C13_FourKindsOnce ==
    /\ error \in FourKinds \cup {"none"}
    /\ requests <= 1

\* C14: decoding is demand-driven: the transport has read the response body to its end
\* only if the consumer's requests for fragments have taken the decoder to the end of
\* the response.
C14_DemandDriven ==
    body_read => (call = "raised" \/ gen \in {"flushed", "finished", "raised"})

\* C16: once generate() has returned or raised, the HTTP client it acquired has been
\* released, wherever the consumer then stops.
C16_ClientReleased ==
    /\ call \in {"returned", "raised"} => client = "closed"
    /\ client = "open" => call = "posting"

\* the consumer received a fragment and then stopped asking, before the end of the
\* response
C16_Witness ==
    /\ call = "returned"
    /\ client = "closed"
    /\ parts # <<>>
    /\ gen = "reading"
    /\ ~awaiting
    /\ stops = 0

RECURSIVE FedContent(_, _)
\* the content the tag parser was fed by lines n..last, in arrival order
FedContent(n, last) ==
    IF n > last THEN <<>>
    ELSE (IF n \in fed_lines THEN lines[n].content ELSE <<>>) \o FedContent(n + 1, last)

\* the fragments the tag parser yielded, in the order they were produced
ParserBorn ==
    LET own == SelectSeq(produced, LAMBDA e : e.line = 0 \/ e.line \in fed_lines)
    IN  [k \in 1..Len(own) |-> own[k].part]

RECURSIVE InOrder(_, _, _)
\* the texts of the Text and Think fragments ps occur in text one after the other, the
\* first at or after offset from
InOrder(ps, text, from) ==
    IF ps = <<>> THEN TRUE
    ELSE IF ps[1].kind \notin {"Text", "Think"} THEN InOrder(Tail(ps), text, from)
    ELSE /\ FindFrom(text, ps[1].text, from) # -1
         /\ InOrder(Tail(ps), text, FindFrom(text, ps[1].text, from) + Len(ps[1].text))

\* C15: fragments are emitted in arrival order: the consumer receives them in the order
\* they were produced; a fragment produced while a later frame was processed never
\* precedes one of an earlier frame, those of the end of the stream come last; and the
\* fragments cut from the content lie in the content stream one after the other.
C15_ArrivalOrder ==
    /\ Len(parts) <= Len(produced)
    /\ \A k \in 1..Len(parts) : parts[k] = produced[k].part
    /\ \A i \in 1..Len(produced) : \A j \in 1..Len(produced) :
          i < j => \/ produced[j].line = 0
                   \/ (produced[i].line # 0 /\ produced[i].line <= produced[j].line)
    /\ InOrder(ParserBorn, FedContent(1, line_pos), 0)

\* a Think fragment whose text arrived in the first frame was produced on the second,
\* and the consumer received it and a fragment of the end of the stream after it
C15_Witness ==
    /\ Len(parts) = Len(produced)
    /\ Len(parts) >= 2
    /\ produced[1] = [line |-> 2, part |-> ThinkPart(<<"h">>)]
    /\ produced[Len(produced)].line = 0
    /\ lines[1].content = THINK_OPEN \o <<"h">>

\* the lines read whose delta is one tool-call entry that carries argument text and
\* no function name, and nothing else
ArgumentOnlyLines ==
    { n \in DeltaLines :
        /\ lines[n].reasoning_content = <<>>
        /\ lines[n].content = <<>>
        /\ Len(lines[n].tool_calls) = 1
        /\ lines[n].tool_calls[1].name = <<>>
        /\ lines[n].tool_calls[1].arguments # <<>> }

\* C21: an entry of a native tool-call delta list that carries only argument text
\* yields an argument fragment keyed by the entry's positional index: it is one
\* ToolCallPart with the entry's text, and the fragments of two such entries are the
\* same only if the entries have the same index.
C21_ArgumentKeyedByIndex ==
    \A n \in ArgumentOnlyLines :
        /\ PartsOfLine(n) = <<ToolCallPart(lines[n].tool_calls[1].arguments)>>
        /\ \A m \in ArgumentOnlyLines :
              PartsOfLine(m) = PartsOfLine(n)
                  => lines[m].tool_calls[1].index = lines[n].tool_calls[1].index

(***************************************************************************)
(* BodegaStreamedMessage over a whole (non-streamed) body: the message of  *)
(* choices[0], converted in one call.  Every tool-call entry of a message  *)
(* carries function.name and function.arguments.                           *)
(***************************************************************************)

RECURSIVE api_tool_call_parts(_, _)
\* for tool_call in api_tool_calls: yield ToolCall(id=tool_call.get("id") or uuid4(), ...)
api_tool_call_parts(api_tool_calls, uuids) ==
    IF api_tool_calls = <<>> THEN <<>>
    ELSE <<ToolCall(IF api_tool_calls[1].id # 0 THEN UpstreamId(api_tool_calls[1].id)
                    ELSE SynId(uuids + 1),
                    api_tool_calls[1].name, api_tool_calls[1].arguments)>>
         \o api_tool_call_parts(Tail(api_tool_calls),
                                uuids + (IF api_tool_calls[1].id # 0 THEN 0 ELSE 1))

\* the fragments of the "elif content" branch, from the result of
\* _parse_content_with_tags and the message's reasoning_content
tagged_parts(parsed, api_reasoning_content) ==
    (IF parsed.thinking # <<>> /\ api_reasoning_content = <<>>
     THEN <<ThinkPart(parsed.thinking)>> ELSE <<>>)
    \o parsed.tool_calls
    \o (IF parsed.text # <<>> THEN <<TextPart(parsed.text)>> ELSE <<>>)

\* the fragments _convert_non_stream_response yields for a message
convert_message(m, uuids) ==
    (IF m.reasoning_content # <<>> THEN <<ThinkPart(m.reasoning_content)>> ELSE <<>>)
    \o (IF m.tool_calls # <<>>
        THEN api_tool_call_parts(m.tool_calls, uuids)
             \o (IF m.content # <<>> THEN <<TextPart(m.content)>> ELSE <<>>)
        ELSE IF m.content # <<>>
        THEN tagged_parts(parse_content_with_tags(m.content, uuids), m.reasoning_content)
        ELSE <<>>)

\* the test "if not data.get(\"choices\")" if it only saw an absent key
choices_missing(body) == body.choices = "absent"

\* if not data.get("choices"): return
no_choices(body) == body.choices \in {"absent", "empty"}

\* _convert_non_stream_response from the choices test on: the fragments, and the
\* exception data["choices"][0] raises on an empty list
convert_body(body, uuids) ==
    IF no_choices(body) THEN [out |-> <<>>, error |-> "none"]
    ELSE IF body.choices = "empty" THEN [out |-> <<>>, error |-> "IndexError"]
    ELSE [out |-> convert_message(body, uuids), error |-> "none"]

\* the number of ToolCall fragments with a synthesized id
SynCount(ps) == Cardinality({ k \in 1..Len(ps) : ps[k].kind = "ToolCall" /\ ps[k].id.syn })

(***************************************************************************)
(* Whole-body runs: the text of a parser run is also the content of a      *)
(* message, which _convert_non_stream_response converts once.              *)
(***************************************************************************)

TxtSpaced == <<" ", "a", " ">>
Reasoning == <<"r">>

\* the body of a think region that holds a tool-call block
TxtNested == <<"a">> \o TOOL_OPEN \o BodyCall \o TOOL_CLOSE

WholeSegs == ClosedSegs \cup { Seg("text", TxtSpaced), Seg("think", TxtNested) }

\* tool-call bodies that are JSON: an array, a number, a string, an object without
\* name, and an object with a name and no arguments
BodyArray == <<"[", "1", "]">>
BodyNumber == <<"1">>
BodyString == <<"\"", "x", "\"">>
BodyNoName == <<"{", "\"", "a", "\"", ":", "1", "}">>
BodyNameOnly == <<"{", "\"", "n", "a", "m", "e", "\"", ":", "\"", "x", "\"", "}">>

JsonBodies == {BodyArray, BodyNumber, BodyString, BodyNoName, BodyNameOnly}

WholeDocs ==
    LET closed == SeqsUpTo(WholeSegs, MaxSegs)
    IN  closed \cup { Append(q, o) : q \in { r \in closed : Len(r) < MaxSegs }, o \in OpenSegs }
               \cup { <<Seg("tool", b)>> : b \in JsonBodies }

\* the tool_calls lists of a message: none, one entry with an upstream id, and two
\* entries of which the second has no id
ApiToolCalls ==
    { <<>>,
      <<Entry(0, 1, NameF, Arg1)>>,
      <<Entry(0, 1, NameF, Arg1), Entry(1, 0, NameG, Arg2)>> }

InitWhole ==
    /\ doc \in WholeDocs
    /\ fed = 0
    /\ cuts = <<>>
    /\ tag_parser = NewTagParser
    /\ parts = <<>>
    /\ flushed = <<>>
    /\ phase = "feeding"
    /\ uuid_drawn = 0
    /\ FacadeIdle
    /\ WholeIdle
    /\ AgentIdle
    /\ BodegaInit

TopLevel(id, usage_obj, choices) == [id |-> id, usage |-> usage_obj, choices |-> choices]

\* the top-level fields of a body with a message
FullHead == TopLevel(1, Usage(TRUE, 3, TRUE, 5), "one")

\* the top-level fields of the bodies without choices
BareHeads ==
    { TopLevel(1, Usage(TRUE, 3, TRUE, 5), "absent"),
      TopLevel(2, Usage(TRUE, 7, FALSE, 0), "empty"),
      TopLevel(0, UsageAbsent, "empty"),
      TopLevel(1, Usage(FALSE, 0, FALSE, 0), "absent") }

\* the bodies of a run: the message has the text of the run as content, or there
\* are no choices
Bodies ==
    { Body(FullHead, Message(reasoning_content, api_tool_calls, input)) :
          reasoning_content \in {<<>>, Reasoning}, api_tool_calls \in ApiToolCalls }
    \cup { Body(head, Message(<<>>, <<>>, <<>>)) : head \in BareHeads }

\* async for part in self._convert_non_stream_response(), to its end: id and usage
\* are taken from the body, then its message is converted
ConvertWhole(body) ==
    /\ phase = "done"
    /\ ~message.set
    /\ message' = body
    /\ resp_id' = body.id
    /\ usage' = UsageAfter(body, usage)
    /\ whole' = convert_body(body, uuid_drawn).out
    /\ error' = IF convert_body(body, uuid_drawn).error # "none"
                THEN convert_body(body, uuid_drawn).error ELSE error
    /\ uuid_drawn' = uuid_drawn + SynCount(whole')
    /\ UNCHANGED <<doc, fed, cuts, flushed, phase, tag_parser, parts>>
    /\ UNCHANGED <<lines, line_pos, iter, gen, has_api_parsed_fields, produced, fed_lines,
                   stops, aiters, awaiting, call, client, requests, body_read>>
    /\ UNCHANGED <<providerVars, agentVars>>

NextWhole ==
    \/ \E n \in 1..Len(input) : Deliver(n)
    \/ Flush
    \/ \E body \in Bodies : ConvertWhole(body)

SpecWhole == InitWhole /\ [][NextWhole]_vars

(***************************************************************************)
(* Reading a whole-body run                                                *)
(***************************************************************************)

\* the fragments without the numbers of the identifiers drawn for them
Undrawn(ps) ==
    [k \in 1..Len(ps) |->
        IF ps[k].kind = "ToolCall" /\ ps[k].id.syn THEN [ps[k] EXCEPT !.id = SynId(0)]
        ELSE ps[k]]

\* the fragments without their identifiers
Unnamed(ps) == [k \in 1..Len(ps) |-> [ps[k] EXCEPT !.id = NoId]]

\* the function name and arguments of the ToolCall fragments, in order
RECURSIVE Calls(_)
Calls(ps) ==
    IF ps = <<>> THEN <<>>
    ELSE (IF ps[1].kind = "ToolCall"
          THEN <<[name |-> ps[1].name, arguments |-> ps[1].arguments]>> ELSE <<>>)
         \o Calls(Tail(ps))

\* a body with a message was converted, with or without structured fields
Converted == message.set /\ message.choices = "one"
Structured == Converted /\ (message.reasoning_content # <<>> \/ message.tool_calls # <<>>)
Unstructured == Converted /\ message.reasoning_content = <<>> /\ message.tool_calls = <<>>

\* one ToolCall per entry, its id the upstream one, else a drawn one
EntryCalls(tool_calls) ==
    [k \in 1..Len(tool_calls) |->
        ToolCall(IF tool_calls[k].id # 0 THEN UpstreamId(tool_calls[k].id) ELSE SynId(0),
                 tool_calls[k].name, tool_calls[k].arguments)]

\* the bodies of the closed think regions of a text, in order
RECURSIVE ThinkBodies(_)
ThinkBodies(d) ==
    IF d = <<>> THEN <<>>
    ELSE (IF d[1].k = "think" THEN <<d[1].body>> ELSE <<>>) \o ThinkBodies(Tail(d))

\* json.dumps({"a": 1})
DumpedA1 == <<"{", "\"", "a", "\"", ":", " ", "1", "}">>

\* one ToolCall per closed tool-call block whose body is the call x({"a": 1}), be
\* the block a region of the text or inside a think region, or the call x()
RECURSIVE BlockCalls(_)
BlockCalls(d) ==
    IF d = <<>> THEN <<>>
    ELSE (IF \/ d[1].k = "tool" /\ d[1].body = BodyCall
             \/ d[1].k = "think" /\ d[1].body = TxtNested
          THEN <<ToolCall(NoId, <<"x">>, DumpedA1)>>
          ELSE IF d[1].k = "tool" /\ d[1].body = BodyNameOnly
          THEN <<ToolCall(NoId, <<"x">>, <<"{", "}">>)>>
          ELSE <<>>)
         \o BlockCalls(Tail(d))

\* the text outside the closed regions
RECURSIVE Outside(_)
Outside(d) ==
    IF d = <<>> THEN <<>>
    ELSE (IF d[1].k \in {"think", "tool"} THEN <<>> ELSE RenderSeg(d[1])) \o Outside(Tail(d))

\* the text from its first to its last character that is not whitespace
Trimmed(t) ==
    LET inked == { k \in 1..Len(t) : ~IsWs(t[k]) }
    IN  IF inked = {} THEN <<>>
        ELSE SubSeq(t, CHOOSE k \in inked : \A j \in inked : k <= j,
                       CHOOSE k \in inked : \A j \in inked : k >= j)

OneThink(t) == IF t # <<>> THEN <<ThinkPart(t)>> ELSE <<>>
OneText(t) == IF t # <<>> THEN <<TextPart(t)>> ELSE <<>>

(***************************************************************************)
(* Claims about the whole-body adapter (checked under SpecWhole)           *)
(***************************************************************************)

\* C17: when the message carries a structured reasoning field or structured tool
\* calls, the fragments are exactly one Think for the reasoning (if present), one
\* ToolCall per entry in order (upstream id, else a synthesized one), and one Text
\* equal to the content verbatim (if present): the content is not scanned for tags.
C17_StructuredVerbatim ==
    Structured =>
        Undrawn(whole) = OneThink(message.reasoning_content)
                         \o EntryCalls(message.tool_calls)
                         \o OneText(message.content)

\* C18: when the message has no structured fields and a content string, the
\* fragments are, in this order: one Think with the bodies of the well-formed think
\* regions joined by newlines (omitted if empty), one ToolCall per well-formed
\* tool-call block whose body reconstructs, and one Text with the content outside
\* the recognised spans, trimmed (omitted if empty).
C18_TaggedContent ==
    (Unstructured /\ message.content # <<>>) =>
        Unnamed(whole) = OneThink(Join(ThinkBodies(doc), <<"\n">>))
                         \o BlockCalls(doc)
                         \o OneText(Trimmed(Outside(doc)))

\* a text with a think region and padded plain text was converted
C18_Witness ==
    /\ Unstructured
    /\ doc = <<Seg("think", TxtShort), Seg("text", TxtSpaced)>>
    /\ whole = <<ThinkPart(TxtShort), TextPart(<<"a">>)>>

\* C19: the whole-body adapter and the streaming parser fed the same text (in any
\* chunking, then flushed) extract the same reasoning text and the same sequence of
\* tool calls (function name and arguments).
C19_Parity ==
    (Unstructured /\ phase = "done") =>
        /\ ConcatKind(whole, "Think") = ConcatKind(parts, "Think")
        /\ Calls(whole) = Calls(parts)

(***************************************************************************)
(* Provider runs: copies of the constructed provider are made by the       *)
(* builders, their holders update them in place, and generate() is called  *)
(* on one of them.                                                         *)
(***************************************************************************)

MaxProviders == 3
MaxList == 2

Efforts == {"off", "high"}

\* every variable of the response decoder
decoderVars ==
    <<doc, fed, cuts, flushed, phase, tag_parser, parts, uuid_drawn, wholeVars,
      lines, line_pos, iter, gen, resp_id, usage, has_api_parsed_fields,
      produced, fed_lines, stops, aiters, awaiting, agentVars>>

InitProviders ==
    /\ doc = <<>>
    /\ fed = 0
    /\ cuts = <<>>
    /\ flushed = <<>>
    /\ phase = "off"
    /\ tag_parser = NewTagParser
    /\ parts = <<>>
    /\ uuid_drawn = 0
    /\ FacadeIdle
    /\ WholeIdle
    /\ AgentIdle
    /\ BodegaInit

\* the builder's result r = [heap, provider] becomes the next provider, a copy of p
Returned(r, p) ==
    /\ Len(providers) < MaxProviders
    /\ heap' = r.heap
    /\ providers' = Append(providers, r.provider)
    /\ recorded' = Append(recorded, Configuration(r.heap, r.provider))
    /\ origin' = Append(origin, p)
    /\ UNCHANGED <<request_body, callVars, decoderVars>>

\* providers[p].with_thinking(effort)
WithThinking(p, effort) == Returned(with_thinking(heap, providers[p], effort), p)

\* providers[p].with_generation_kwargs(temperature=s)
WithGenerationKwargs(p, s) ==
    Returned(with_generation_kwargs(heap, providers[p], "temperature", Scalar(s)), p)

\* providers[p].with_generation_kwargs(stop=[s]): the caller's list is a new object
WithStop(p, s) ==
    Returned(with_generation_kwargs(Append(heap, ListCell(<<s>>)), providers[p],
                                    "stop", Ref(Len(heap) + 1)), p)

\* providers[p].with_chat_template_kwargs(enable_thinking=s)
WithChatTemplateKwargs(p, s) ==
    Returned(with_chat_template_kwargs(heap, providers[p], "enable_thinking", Scalar(s)), p)

\* an update in place through the copy q has left the heap h and the providers ps
Updated(q, h, ps) ==
    /\ q > 1
    /\ heap' = h
    /\ providers' = ps
    /\ recorded' = [recorded EXCEPT ![q] = Configuration(h, ps[q])]
    /\ UNCHANGED <<origin, request_body, callVars, decoderVars>>

\* providers[q]._thinking_effort = effort, by a holder of the copy q
SetThinkingEffort(q, effort) ==
    /\ providers[q].thinking_effort # effort
    /\ Updated(q, heap, [providers EXCEPT ![q].thinking_effort = effort])

\* providers[q]._generation_kwargs["temperature"] = s
SetGenerationKwarg(q, s) ==
    /\ heap[providers[q].generation_kwargs].items["temperature"] # Scalar(s)
    /\ Updated(q, update(heap, providers[q].generation_kwargs, "temperature", Scalar(s)),
               providers)

\* providers[q]._chat_template_kwargs["enable_thinking"] = s
SetChatTemplateKwarg(q, s) ==
    /\ heap[providers[q].chat_template_kwargs].items["enable_thinking"] # Scalar(s)
    /\ Updated(q, update(heap, providers[q].chat_template_kwargs, "enable_thinking", Scalar(s)),
               providers)

\* providers[q]._generation_kwargs["stop"].append(s)
AppendStop(q, s) ==
    /\ heap[providers[q].generation_kwargs].items["stop"].t = "ref"
    /\ Len(heap[heap[providers[q].generation_kwargs].items["stop"].c].list) < MaxList
    /\ Updated(q, [heap EXCEPT ![heap[providers[q].generation_kwargs].items["stop"].c].list
                                   = Append(@, s)],
               providers)

NextProviders ==
    \/ \E p \in 1..Len(providers), effort \in Efforts : WithThinking(p, effort)
    \/ \E p \in 1..Len(providers) : WithGenerationKwargs(p, "1")
    \/ \E p \in 1..Len(providers) : WithStop(p, "x")
    \/ \E p \in 1..Len(providers) : WithChatTemplateKwargs(p, "True")
    \/ \E q \in 1..Len(providers), effort \in Efforts : SetThinkingEffort(q, effort)
    \/ \E q \in 1..Len(providers) : SetGenerationKwarg(q, "2")
    \/ \E q \in 1..Len(providers) : SetChatTemplateKwarg(q, "False")
    \/ \E q \in 1..Len(providers) : AppendStop(q, "y")
    \/ \E p \in 1..Len(providers) : Post(p)
    \/ \E outcome \in Outcomes : PostDone(outcome)

SpecProviders == InitProviders /\ [][NextProviders]_vars

(***************************************************************************)
(* Claims about the builders (checked under SpecProviders)                 *)
(***************************************************************************)

\* C20: the builders return a new provider and leave the original unchanged:
\* after any sequence of builder calls and of updates made through the copies,
\* every provider's thinking effort, generation kwargs and chat-template kwargs are
\* what they were when it was made or last updated through itself; the
\* constructed provider, which is never updated, is as it was constructed.
C20_OriginalUnchanged ==
    /\ \A p \in 1..Len(providers) : Configuration(heap, providers[p]) = recorded[p]
    /\ Configuration(heap, providers[1]) =
           [thinking_effort |-> "None",
            generation_kwargs |-> [k \in Keys |-> Resolved(heap, Absent)],
            chat_template_kwargs |-> [k \in Keys |-> Resolved(heap, Absent)]]

\* a copy of a copy holds a stop list that was appended to through it, while the
\* provider it was copied from still holds the list as it was
C20_Witness ==
    \E q \in 1..Len(providers) :
        /\ origin[q] > 1
        /\ Configuration(heap, providers[q]).generation_kwargs["stop"].list = <<"x", "y">>
        /\ Configuration(heap, providers[origin[q]]).generation_kwargs["stop"].list = <<"x">>

(***************************************************************************)
(* Claims about native tool-call deltas (checked under Spec)               *)
(***************************************************************************)

\* the ToolCall and argument fragments among ps, in order
ToolFragments(ps) == SelectSeq(ps, LAMBDA f : f.kind \in {"ToolCall", "ToolCallPart"})

RECURSIVE EntryYield(_)
\* what the entries of a tool-call delta list are to yield, in order: one ToolCall for
\* an entry with a name, one argument fragment for one with argument text only,
\* nothing for one with neither
EntryYield(entries) ==
    IF entries = <<>> THEN <<>>
    ELSE (IF entries[1].name # <<>>
          THEN <<ToolCall(IF entries[1].id # 0 THEN UpstreamId(entries[1].id) ELSE SynId(0),
                          entries[1].name, entries[1].arguments)>>
          ELSE IF entries[1].arguments # <<>> THEN <<ToolCallPart(entries[1].arguments)>>
          ELSE <<>>)
         \o EntryYield(Tail(entries))

\* C22: an entry of a native tool-call delta list that carries a function name yields
\* exactly one ToolCall while its frame is processed, with the upstream id when there
\* is one and a synthesized id otherwise, and with the entry's argument text (empty if
\* none); it yields no separate argument fragment, and an entry with neither name nor
\* argument text yields nothing.
C22_NamedEntryOneToolCall ==
    \A n \in DeltaLines :
        lines[n].tool_calls # <<>> =>
            Undrawn(ToolFragments(PartsOfLine(n))) = EntryYield(lines[n].tool_calls)

\* a frame with a named entry that has an upstream id and no arguments and a named
\* entry without id that has arguments was processed, and so was a frame whose only
\* entry has neither name nor arguments
C22_Witness ==
    \E n \in DeltaLines : \E m \in DeltaLines :
        /\ Len(PartsOfLine(n)) = 2
        /\ PartsOfLine(n)[1] = ToolCall(UpstreamId(1), NameF, <<>>)
        /\ PartsOfLine(n)[2].kind = "ToolCall" /\ PartsOfLine(n)[2].id.syn
        /\ PartsOfLine(n)[2].name = NameG /\ PartsOfLine(n)[2].arguments = Arg2
        /\ lines[m].tool_calls = <<Entry(0, 0, <<>>, <<>>)>>
        /\ ToolFragments(PartsOfLine(m)) = <<>>

(***************************************************************************)
(* More claims about the tag parser (checked under SpecParser)             *)
(***************************************************************************)

\* none of the four delimiters occurs in the text
NoDelimiter(t) ==
    /\ Find(t, THINK_OPEN) = -1
    /\ Find(t, THINK_CLOSE) = -1
    /\ Find(t, TOOL_OPEN) = -1
    /\ Find(t, TOOL_CLOSE) = -1

\* the buffer a process() call works on: the buffer before and the chunk delivered
Running == tag_parser.buffer \o SubSeq(input, fed + 1, fed')

\* a process() call in the Normal or the InThink state on a running buffer without
\* delimiter withholds the last n characters and emits what is before them, in one
\* fragment of the state's kind; a buffer of at most n characters is left as it is
\* and nothing is emitted
WithholdsLast(n) ==
    (fed' > fed /\ ~tag_parser.in_tool /\ NoDelimiter(Running)) =>
        IF Len(Running) > n
        THEN /\ tag_parser'.buffer = LastN(Running, n)
             /\ parts' = Append(parts, IF tag_parser.in_think
                                       THEN ThinkPart(ButLastN(Running, n))
                                       ELSE TextPart(ButLastN(Running, n)))
        ELSE /\ tag_parser'.buffer = Running
             /\ parts' = parts

\* C23, as claimed: in the Normal and InThink states, on a running buffer without
\* delimiter, process() withholds exactly the last N characters and emits everything
\* before them, N being one less than the length of the longest delimiter (11); a
\* buffer of at most N characters is left unchanged and nothing is emitted.
C23_RetentionEleven == [][WithholdsLast(Len(TOOL_CLOSE) - 1)]_vars

\* C23, amended: the same with N = 15, the parser's keep_size.
C23_RetentionFifteen == [][WithholdsLast(15)]_vars

\* a text of 17 characters without delimiter was delivered whole to a new parser:
\* its first two characters were emitted and the other fifteen are withheld
C23_Witness ==
    /\ doc = <<Seg("text", TxtLong)>>
    /\ cuts = <<Len(TxtLong)>>
    /\ phase = "feeding"
    /\ parts = <<TextPart(<<"a", "b">>)>>
    /\ tag_parser.buffer = LastN(TxtLong, 15)

(***************************************************************************)
(* Claims about the end of a stream (checked under Spec)                   *)
(***************************************************************************)

\* the generator has left its loop over the lines in the regular way
EndReached == gen \in {"flushed", "finished"}

\* the fragments produced after the loop, in order
FlushParts ==
    LET own == SelectSeq(produced, LAMBDA e : e.line = 0)
    IN  [k \in 1..Len(own) |-> own[k].part]

\* C24: at the end of the stream, reached by the terminator sentinel or by the
\* transport running out of lines, the fragments of the tag parser's flush() are
\* produced exactly when the dialect flag was never set; they are produced at no other
\* time, and the consumer has received them once the sequence is exhausted.
C24_FlushUnlessNative ==
    /\ EndReached =>
          FlushParts = IF has_api_parsed_fields THEN <<>> ELSE flush(tag_parser)
    /\ ~EndReached => FlushParts = <<>>
    /\ Exhausted => /\ Len(parts) = Len(produced)
                    /\ \A k \in 1..Len(parts) : parts[k] = produced[k].part

\* a stream of embedded-dialect content ran out of lines without a sentinel, and the
\* consumer received the retained tail and was told of the end
C24_Witness ==
    /\ Exhausted
    /\ ~has_api_parsed_fields
    /\ lines[line_pos].kind = "eof"
    /\ \A n \in 1..line_pos : lines[n].kind # "done"
    /\ FlushParts = <<TextPart(TxtShort)>>
    /\ parts[Len(parts)] = TextPart(TxtShort)

\* C25: text of content deltas that arrived before the first native field is not lost
\* when the stream switches to the native dialect: once the sequence is exhausted,
\* whatever the tag parser still held at the end of the stream has been emitted, and
\* content without delimiters that was fed to the tag parser has been emitted in full.
C25_HeldTextEmitted ==
    Exhausted =>
        /\ FlushParts = flush(tag_parser)
        /\ NoDelimiter(FedContent(1, line_pos))
              => ConcatKind(ParserBorn, "Text") = FedContent(1, line_pos)

(***************************************************************************)
(* Claims about tool-call blocks (checked under SpecWhole)                 *)
(***************************************************************************)

\* the text has no tool-call block inside a think region
Unnested == \A k \in 1..Len(doc) : doc[k].body # TxtNested

\* the text is one closed tool-call block whose body is JSON but no object with a name
NoCallBlock ==
    /\ Len(doc) = 1
    /\ doc[1].k = "tool"
    /\ doc[1].body \in {BodyArray, BodyNumber, BodyString, BodyNoName}

\* C26: a closed tool-call block whose body is JSON but not an object with a name
\* (an array, a number, a string, an object without name) emits nothing; a body that
\* is an object with a name emits exactly one ToolCall whose arguments are the JSON
\* serialization of its arguments value, or of the empty object when there is none;
\* in the streaming parser and in the whole-body scanner alike.
C26_BlockReconstruction ==
    /\ (phase = "done" /\ Unnested) => Calls(parts) = Calls(BlockCalls(doc))
    /\ (phase = "done" /\ NoCallBlock) => parts = <<>>
    /\ (Unstructured /\ Unnested) => Calls(whole) = Calls(BlockCalls(doc))
    /\ (Unstructured /\ NoCallBlock) => whole = <<>>

\* the same of the whole-body scanner alone
WholeBlocks ==
    /\ Unstructured => Calls(whole) = Calls(BlockCalls(doc))
    /\ (Unstructured /\ NoCallBlock) => whole = <<>>

(***************************************************************************)
(* Claims about the parser's states (checked under SpecParser)             *)
(***************************************************************************)

\* a process() call in the tool-call state: without a closer in the running buffer
\* the whole of it, openers included, joins the accumulated body, the state stays
\* and nothing is emitted; with a closer, the body ends at the first one, at most
\* the call decoded from it is emitted, and what follows the closer is parsed from
\* the Normal state
ToolStateOpaque(closer_idx, end_uuids) ==
    (fed' > fed /\ tag_parser.in_tool) =>
        IF closer_idx = -1
        THEN /\ tag_parser' = [tag_parser EXCEPT !.tool_buffer = @ \o Running, !.buffer = <<>>]
             /\ parts' = parts
        ELSE LET made == SubSeq(parts', Len(parts) + 1, Len(parts) + end_uuids - uuid_drawn)
                 rest == process(NewTagParser, Drop(Running, closer_idx + Len(TOOL_CLOSE)),
                                 end_uuids)
             IN  /\ end_uuids - uuid_drawn \in {0, 1}
                 /\ \A k \in 1..Len(made) : made[k].kind = "ToolCall"
                 /\ tag_parser' = rest.p
                 /\ parts' = parts \o made \o rest.out

\* C27: while the parser is in the tool-call state it never scans for openers: a
\* literal <think> or <tool_call> in the body in progress is accumulated as data,
\* changes no state and emits no Think or Text; the only way out of the state is
\* the first </tool_call>.
C27_ToolStateOpaque ==
    [][ToolStateOpaque(Find(Running, TOOL_CLOSE),
                       uuid_drawn + (IF ToolCallFromJson(
                                           tag_parser.tool_buffer
                                               \o Take(Running, Find(Running, TOOL_CLOSE)),
                                           uuid_drawn) = <<>> THEN 0 ELSE 1))]_vars

\* both openers have arrived inside a tool-call body and the parser is still in the
\* tool-call state, with nothing emitted
C27_Witness ==
    /\ doc = <<Seg("tool", BodyOpeners)>>
    /\ tag_parser.in_tool /\ ~tag_parser.in_think
    /\ Find(tag_parser.tool_buffer, THINK_OPEN) # -1
    /\ Find(tag_parser.tool_buffer, TOOL_OPEN) # -1
    /\ tag_parser.buffer = <<>>
    /\ parts = <<>>

\* the parser in the Normal state
Normal(p) == ~p.in_think /\ ~p.in_tool

\* a process() call in the Normal state on a running buffer with <think> at think_idx
\* and <tool_call> at tool_idx: the text before the earlier opener is emitted as one
\* Text (nothing if there is none), and the call goes on as a parser that is in that
\* opener's state does on what follows the opener (of <tool_call>, on what follows
\* some part of it)
EarlierOpenerWins(think_idx, tool_idx) ==
    (fed' > fed /\ Normal(tag_parser) /\ think_idx # -1 /\ tool_idx # -1) =>
        LET first == IF think_idx < tool_idx THEN think_idx ELSE tool_idx
            pre == IF first > 0 THEN <<TextPart(Take(Running, first))>> ELSE <<>>
        IN  IF think_idx < tool_idx
            THEN LET r == process([NewTagParser EXCEPT !.in_think = TRUE],
                                  Drop(Running, first + Len(THINK_OPEN)), uuid_drawn)
                 IN  /\ tag_parser' = r.p
                     /\ parts' = parts \o pre \o r.out
            ELSE \E k \in 1..Len(TOOL_OPEN) :
                     LET r == process([NewTagParser EXCEPT !.in_tool = TRUE],
                                      Drop(Running, first + k), uuid_drawn)
                     IN  /\ tag_parser' = r.p
                         /\ parts' = parts \o pre \o r.out

\* C28: in the Normal state, when both openers are in the buffer, the one at the
\* smaller index is taken: the text before it is emitted as Text (nothing if empty),
\* the parser enters that opener's state and the other opener is handled according
\* to that state.
C28_EarlierOpenerWins ==
    [][EarlierOpenerWins(Find(Running, THINK_OPEN), Find(Running, TOOL_OPEN))]_vars

\* text, then a tool-call block with a <think> in its body, delivered at once: the
\* text came out as Text, the <think> stayed data and the parser is back in Normal
C28_Witness ==
    /\ doc = <<Seg("text", TxtShort), Seg("tool", BodyOpeners)>>
    /\ cuts = <<Len(input)>>
    /\ phase = "feeding"
    /\ parts = <<TextPart(TxtShort)>>
    /\ Normal(tag_parser)
    /\ tag_parser.buffer = <<>>

RECURSIVE BodiesOf(_, _)
\* the bodies of the segments of d whose kind is in kinds, one after the other
BodiesOf(d, kinds) ==
    IF d = <<>> THEN <<>>
    ELSE (IF d[1].k \in kinds THEN d[1].body ELSE <<>>) \o BodiesOf(Tail(d), kinds)

\* C29: if the stream ends while the parser is in the thinking state (opener seen, no
\* closer), flush() emits the whole remaining buffer as one final Think fragment, so
\* that with the Think fragments emitted before it the unterminated reasoning text
\* is delivered completely and none of it as Text.
C29_FlushInThink ==
    (phase = "done" /\ tag_parser.in_think) =>
        /\ doc # <<>> /\ doc[Len(doc)].k = "openthink"
        /\ flushed = IF tag_parser.buffer # <<>> THEN <<ThinkPart(tag_parser.buffer)>> ELSE <<>>
        /\ ConcatKind(parts, "Think") = BodiesOf(doc, {"think", "openthink"})
        /\ ConcatKind(parts, "Text") = BodiesOf(doc, {"text"})

\* seventeen characters of unterminated reasoning delivered at once: two came out of
\* process(), the fifteen withheld came out of flush(), all as Think
C29_Witness ==
    /\ doc = <<Seg("openthink", TxtLong)>>
    /\ cuts = <<Len(input)>>
    /\ phase = "done"
    /\ tag_parser.in_think
    /\ flushed = <<ThinkPart(LastN(TxtLong, 15))>>
    /\ parts = <<ThinkPart(<<"a", "b">>), ThinkPart(LastN(TxtLong, 15))>>

\* C30: the parser is in exactly one of the states Normal, InThink, InTool at any
\* time: after any sequence of process() and flush() calls the flags in_think and
\* in_tool are never both true.
C30_OneState == ~(tag_parser.in_think /\ tag_parser.in_tool)

\* a think region was opened and closed, then a tool-call region opened and the
\* stream ended: the parser has been in all three states
C30_Witness ==
    /\ doc = <<Seg("think", TxtShort), Seg("opentool", BodyPartial)>>
    /\ phase = "done"
    /\ parts[1] = ThinkPart(TxtShort)
    /\ tag_parser.in_tool
    /\ ~tag_parser.in_think

(***************************************************************************)
(* Claims about the accessors (checked under Spec)                         *)
(***************************************************************************)

\* the greatest member of a non-empty set of line numbers
Last(S) == CHOOSE n \in S : \A m \in S : m <= n

\* the usage a frame's usage object reads as: an absent counter reads 0
ReadsAs(u) ==
    TokenUsage(IF u.has_pt THEN u.prompt_tokens ELSE 0,
               IF u.has_ct THEN u.completion_tokens ELSE 0)

\* after exhaustion the accessors hold what the last of the frames in withUsage and
\* the last of the frames in withId carried, or None
AccessorsFrom(withUsage, withId) ==
    Exhausted =>
        /\ usage = IF withUsage = {} THEN NoUsage ELSE ReadsAs(lines[Last(withUsage)].usage)
        /\ resp_id = IF withId = {} THEN 0 ELSE lines[Last(withId)].id

\* C31: usage and id are last-write-wins over whole frames: after exhaustion the usage
\* accessor equals the usage object of the last frame before the terminator that
\* carried one (a missing counter reads 0, never a value merged from an earlier
\* frame), the id accessor equals the id of the last frame that carried one, and
\* frames without choices count like the others.
C31_LastFrameWins ==
    AccessorsFrom({ n \in FrameLines : lines[n].usage.present },
                  { n \in FrameLines : lines[n].id # 0 })

\* C31 as amended: the same, of the last frame that carried a usage object with at
\* least one key (an empty usage object leaves the accessor as it was) and of the last
\* frame that carried a non-empty id.
C31_LastNonEmptyFrameWins ==
    AccessorsFrom({ n \in FrameLines : UsageTruthy(lines[n].usage) },
                  { n \in FrameLines : lines[n].id # 0 })

\* a frame without choices carried both counts and an id, the frame after it only
\* the prompt count, and the accessors give the latter's usage with output 0
C31_Witness ==
    /\ Exhausted
    /\ line_pos >= 2
    /\ lines[1] = Bare(2, Usage(TRUE, 3, TRUE, 5))
    /\ lines[2] = Delta(2, Usage(TRUE, 7, FALSE, 0), <<>>, <<>>, <<"c">>)
    /\ usage = TokenUsage(7, 0)
    /\ resp_id = 2

(***************************************************************************)
(* Claims about the text an embedded-dialect stream carries                *)
(* (checked under Spec)                                                    *)
(***************************************************************************)

RECURSIVE Contents(_, _)
\* the content deltas of lines n..last, concatenated in arrival order
Contents(n, last) ==
    IF n > last THEN <<>>
    ELSE (IF lines[n].kind = "frame" /\ lines[n].choices THEN lines[n].content ELSE <<>>)
         \o Contents(n + 1, last)

Char(kind, ch) == [kind |-> kind, ch |-> ch]

RECURSIVE Marked(_)
\* the characters of the Text and Think fragments, each with its fragment's kind, in
\* emission order
Marked(ps) ==
    IF ps = <<>> THEN <<>>
    ELSE (IF ps[1].kind \in {"Text", "Think"}
          THEN [k \in 1..Len(ps[1].text) |-> Char(ps[1].kind, ps[1].text[k])]
          ELSE <<>>) \o Marked(Tail(ps))

RECURSIVE Undelimited(_, _)
\* the characters of a text with the recognized delimiters and the bodies of closed
\* tool-call blocks removed, each with the kind of the region it stands in: outside
\* every region ("normal") an opener starts its region, inside a think region only
\* </think> is a delimiter, and a tool-call region without closer ("open") is text
Undelimited(t, state) ==
    IF t = <<>> THEN <<>>
    ELSE IF state = "normal" /\ MatchAt(t, THINK_OPEN, 0)
    THEN Undelimited(Drop(t, Len(THINK_OPEN)), "think")
    ELSE IF state = "normal" /\ MatchAt(t, TOOL_OPEN, 0)
    THEN LET rest == Drop(t, Len(TOOL_OPEN))
         IN  IF Find(rest, TOOL_CLOSE) # -1
             THEN Undelimited(Drop(rest, Find(rest, TOOL_CLOSE) + Len(TOOL_CLOSE)), "normal")
             ELSE Undelimited(rest, "open")
    ELSE IF state = "think" /\ MatchAt(t, THINK_CLOSE, 0)
    THEN Undelimited(Drop(t, Len(THINK_CLOSE)), "normal")
    ELSE <<Char(IF state = "think" THEN "Think" ELSE "Text", t[1])>>
         \o Undelimited(Tail(t), state)

\* C32: for an embedded-dialect stream decoded to exhaustion, the texts of the Text
\* and Think fragments, concatenated in emission order, are exactly the concatenated
\* content deltas with the recognized delimiters and the bodies of closed tool-call
\* blocks removed: no character is lost, duplicated or moved between Text and Think.
C32_ContentPreserved ==
    (Exhausted /\ ~has_api_parsed_fields /\ Len(parts) = Len(produced))
        => Marked(parts) = Undelimited(Contents(1, line_pos), "normal")

\* the same of streams whose content holds no <tool_call>
ContentPreservedWithoutTools ==
    (/\ Exhausted /\ ~has_api_parsed_fields /\ Len(parts) = Len(produced)
     /\ Find(Contents(1, line_pos), TOOL_OPEN) = -1)
        => Marked(parts) = Undelimited(Contents(1, line_pos), "normal")

\* the same of a parser run
ParserRunPreservedWithoutTools ==
    (phase = "done" /\ Find(input, TOOL_OPEN) = -1)
        => Marked(parts) = Undelimited(input, "normal")

(***************************************************************************)
(* Claims about the parser's loop (checked under SpecParser)               *)
(***************************************************************************)

RECURSIVE Decreases(_)
\* every iteration of the loop started in st either leaves the loop (break) or leaves
\* a strictly shorter buffer
Decreases(st) ==
    \/ st.p.buffer = <<>>
    \/ ~st.go
    \/ /\ \/ ~Iteration(st).go
          \/ Len(Iteration(st).p.buffer) < Len(st.p.buffer)
       /\ Decreases(Iteration(st))

\* the loop as a process() call on the next characters starts it
LoopStart(chunk) ==
    [p |-> [tag_parser EXCEPT !.buffer = @ \o chunk], out |-> <<>>,
     uuids |-> uuid_drawn, go |-> TRUE]

\* C33: every call of StreamTagParser.process() terminates, for every chunk and every
\* prior parser state: each iteration of its loop either leaves the loop or strictly
\* shortens the buffer.
C33_LoopTerminates ==
    [][fed' > fed => Decreases(LoopStart(SubSeq(input, fed + 1, fed')))]_vars

\* a think region and the text after it came in one call: the loop went from Normal
\* into the think region, out of it, and stopped on the text
C33_Witness ==
    /\ doc = <<Seg("think", TxtShort), Seg("text", TxtShort)>>
    /\ cuts = <<Len(input)>>
    /\ phase = "feeding"
    /\ parts = <<ThinkPart(TxtShort)>>
    /\ Normal(tag_parser)
    /\ tag_parser.buffer = TxtShort

(***************************************************************************)
(* Claims about frames that are no objects (checked under Spec)            *)
(***************************************************************************)

\* C34: a data frame whose payload is valid JSON but no frame object (a number, a
\* string, an array, null) is tolerated like any other malformed frame: reading it
\* emits nothing, raises no error, changes neither id nor usage nor the tag parser,
\* and leaves the reader in its loop, so that the frames after it are still decoded.
C34_NonObjectTolerated ==
    [][(line_pos' = line_pos + 1 /\ lines'[line_pos'].kind = "nonobject") =>
          /\ gen' = "reading"
          /\ error' = error
          /\ produced' = produced
          /\ resp_id' = resp_id
          /\ usage' = usage
          /\ tag_parser' = tag_parser
          /\ has_api_parsed_fields' = has_api_parsed_fields]_vars

(***************************************************************************)
(* Claims about laziness (checked under Spec)                              *)
(***************************************************************************)

\* a fragment has been requested: __anext__ was called at least once
Requested == awaiting \/ line_pos > 0 \/ stops > 0 \/ parts # <<>>

\* the values the accessors can have taken from the frames read so far
ObservedIds == {0} \cup { lines[n].id : n \in FrameLines }
ObservedUsages ==
    {NoUsage} \cup { ReadsAs(lines[n].usage) : n \in { m \in FrameLines : UsageTruthy(lines[m].usage) } }

\* until the first fragment is requested nothing is decoded and the accessors are
\* None; at any time they hold a value of a frame already read
LazyAccessors ==
    /\ ~Requested => /\ resp_id = 0 /\ usage = NoUsage
                     /\ line_pos = 0 /\ produced = <<>> /\ gen = "unstarted"
    /\ resp_id \in ObservedIds
    /\ usage \in ObservedUsages

\* C35: the facade is lazy and its accessors settle: constructing it and calling
\* __aiter__ decodes nothing, so id and usage are None until the first fragment is
\* requested; during iteration they only take values observed in frames already read
\* (and change only when a line is read); after exhaustion they no longer change.
C35_LazyAndSettling ==
    [][ /\ LazyAccessors /\ LazyAccessors'
        /\ line_pos' = line_pos => (resp_id' = resp_id /\ usage' = usage)
        /\ Exhausted => (resp_id' = resp_id /\ usage' = usage /\ Exhausted') ]_vars

\* __aiter__ has been called on the returned facade and nothing has been decoded
Unrequested == call = "returned" /\ iter # 0 /\ ~Requested

\* the stream was exhausted with id and usage taken from its frames, and the
\* consumer asked for a fragment once more
C35_Witness ==
    /\ Exhausted
    /\ stops = MaxStops
    /\ resp_id = 2
    /\ usage = TokenUsage(3, 5)
    /\ parts # <<>>

(***************************************************************************)
(* Claims about a whole body without choices (checked under SpecWhole)     *)
(***************************************************************************)

\* C36: in the non-streaming adapter a body without choices (the key absent, or an
\* empty list) yields an empty fragment sequence and no error, while id and usage
\* are still taken from the body's top-level fields.
C36_NoChoices ==
    (message.set /\ message.choices # "one") =>
        /\ whole = <<>>
        /\ error = "none"
        /\ resp_id = message.id
        /\ usage = IF UsageTruthy(message.usage) THEN ReadsAs(message.usage) ELSE NoUsage

\* a body with an empty choices list, an id and a usage object with the prompt
\* count only was converted
C36_Witness ==
    /\ message.set
    /\ message.choices = "empty"
    /\ whole = <<>>
    /\ error = "none"
    /\ resp_id = 2
    /\ usage = TokenUsage(7, 0)

(***************************************************************************)
(* The reference agent (tests/smol_axe/knife.py): call_api() accumulates   *)
(* the chunks of a streamed completion into one assistant message, and     *)
(* main() runs a turn: call_api(), then run_tool() for each tool call of   *)
(* the response, until a response has no tool calls.                       *)
(* A chunk is choices[0].delta: reasoning, content and tool_calls; a       *)
(* message of the conversation is [role, content, tool_calls,              *)
(* tool_call_id].                                                          *)
(***************************************************************************)

\* most chunks of a streamed completion
MaxChunks == 3

\* most call_api() calls of a run
MaxApiCalls == 2

Chunk(reasoning, content, tool_calls) ==
    [reasoning |-> reasoning, content |-> content, tool_calls |-> tool_calls]

\* idx in collected_tool_calls
Collected(collected_tool_calls, idx) ==
    \E k \in 1..Len(collected_tool_calls) : collected_tool_calls[k].index = idx

\* the body of "for tc in delta.tool_calls": the entry of tc.index is made if it is
\* not there, its id replaced by a non-empty tc.id, and name and arguments extended
AddDelta(collected_tool_calls, tc) ==
    LET made == IF Collected(collected_tool_calls, tc.index) THEN collected_tool_calls
                ELSE Append(collected_tool_calls, Entry(tc.index, tc.id, <<>>, <<>>))
    IN  [k \in 1..Len(made) |->
            IF made[k].index = tc.index
            THEN [made[k] EXCEPT !.id = IF tc.id # 0 THEN tc.id ELSE @,
                                 !.name = @ \o tc.name,
                                 !.arguments = @ \o tc.arguments]
            ELSE made[k]]

RECURSIVE AddDeltas(_, _)
\* for tc in delta.tool_calls: ...
AddDeltas(collected_tool_calls, tool_calls) ==
    IF tool_calls = <<>> THEN collected_tool_calls
    ELSE AddDeltas(AddDelta(collected_tool_calls, tool_calls[1]), Tail(tool_calls))

\* the body of "for chunk in stream": a chunk with reasoning text is printed and the
\* loop continues; else its content and its tool calls are collected
OnChunk(acc, chunk) ==
    IF chunk.reasoning # <<>>
    THEN [acc EXCEPT !.reasoning_buffer = @ \o chunk.reasoning]
    ELSE [acc EXCEPT !.collected_content = @ \o chunk.content,
                     !.collected_tool_calls = AddDeltas(@, chunk.tool_calls)]

RECURSIVE Accumulate(_, _)
Accumulate(chunks, acc) ==
    IF chunks = <<>> THEN acc ELSE Accumulate(Tail(chunks), OnChunk(acc, chunks[1]))

\* the greatest tool-call index of a stream
MaxIndex == 1

RECURSIVE SortedFrom(_, _)
\* for idx in sorted(collected_tool_calls.keys()): ...
SortedFrom(collected_tool_calls, idx) ==
    IF idx > MaxIndex THEN <<>>
    ELSE SelectSeq(collected_tool_calls, LAMBDA e : e.index = idx)
         \o SortedFrom(collected_tool_calls, idx + 1)

\* call_api() on a stream that was opened: the ChatCompletionMessage returned
call_api(chunks) ==
    LET acc == Accumulate(chunks, [reasoning_buffer |-> <<>>, collected_content |-> <<>>,
                                   collected_tool_calls |-> <<>>])
    IN  [ok |-> TRUE, content |-> acc.collected_content,
         tool_calls |-> SortedFrom(acc.collected_tool_calls, 0)]

SystemMessage == [role |-> "system", content |-> <<"s">>, tool_calls |-> <<>>, tool_call_id |-> 0]
UserMessage == [role |-> "user", content |-> <<"u">>, tool_calls |-> <<>>, tool_call_id |-> 0]
AssistantMessage(m) ==
    [role |-> "assistant", content |-> m.content, tool_calls |-> m.tool_calls, tool_call_id |-> 0]

\* {"role": "tool", "tool_call_id": tool_call.id, "content": result}
ToolMessage(tool_call) ==
    [role |-> "tool", content |-> <<"o">>, tool_calls |-> <<>>, tool_call_id |-> tool_call.id]

ArgsOpen == <<"{">>
ArgsClose == <<"}">>

\* the chunks a streamed completion is made of
AgentChunks ==
    { Chunk(<<>>, TxtShort, <<>>),
      Chunk(<<"r">>, <<>>, <<>>),
      Chunk(<<"r">>, <<"c">>, <<>>),
      Chunk(<<"r">>, <<>>, <<Entry(0, 1, NameF, ArgsOpen \o ArgsClose)>>),
      Chunk(<<>>, <<>>, <<Entry(0, 1, NameF, ArgsOpen)>>),
      Chunk(<<>>, <<>>, <<Entry(0, 0, <<>>, ArgsClose)>>),
      Chunk(<<>>, <<"c">>, <<Entry(1, 2, NameG, ArgsOpen \o ArgsClose)>>) }

InitAgent ==
    /\ doc = <<>>
    /\ fed = 0
    /\ cuts = <<>>
    /\ flushed = <<>>
    /\ phase = "off"
    /\ tag_parser = NewTagParser
    /\ parts = <<>>
    /\ uuid_drawn = 0
    /\ FacadeIdle
    /\ WholeIdle
    /\ BodegaInit
    /\ messages = <<SystemMessage>>
    /\ at = "input"
    /\ message_response = NoReply
    /\ tool_pos = 0
    /\ ran = <<>>
    /\ stream = <<>>
    /\ api_calls = 0

\* every variable of the provider and its decoder
bodegaVars ==
    <<doc, fed, cuts, flushed, phase, tag_parser, parts, uuid_drawn, wholeVars,
      lines, line_pos, iter, gen, resp_id, usage, has_api_parsed_fields,
      produced, fed_lines, stops, aiters, awaiting, callVars, providerVars>>

\* main(): a line of user input: a message (the turn begins), "/c" or "/q"
UserInput(user_input) ==
    /\ at = "input"
    /\ IF user_input = "/q" THEN at' = "quit" /\ UNCHANGED messages
       ELSE IF user_input = "/c" THEN messages' = <<SystemMessage>> /\ UNCHANGED at
       ELSE /\ api_calls < MaxApiCalls
            /\ messages' = Append(messages, UserMessage)
            /\ at' = "call"
    /\ UNCHANGED <<message_response, tool_pos, ran, stream, api_calls>>
    /\ UNCHANGED bodegaVars

\* main(): message_response = call_api(messages, current_model): None when the API
\* call fails, else the message accumulated from the chunks; the response is
\* appended, and the turn goes on with its tool calls if there are any
CallApi(failed, chunks) ==
    /\ at = "call"
    /\ api_calls < MaxApiCalls
    /\ api_calls' = api_calls + 1
    /\ stream' = IF failed THEN <<>> ELSE chunks
    /\ message_response' = IF failed THEN NoReply ELSE call_api(chunks)
    /\ messages' = IF failed THEN messages
                   ELSE Append(messages, AssistantMessage(call_api(chunks)))
    /\ at' = IF ~failed /\ call_api(chunks).tool_calls # <<>> THEN "tools" ELSE "input"
    /\ tool_pos' = 1
    /\ UNCHANGED ran
    /\ UNCHANGED bodegaVars

\* main(): one turn of "for tool_call in tool_calls": json.loads of the arguments
\* (an exception ends the turn in "except Exception"), run_tool, and the tool
\* message; after the last tool call the API is called again
RunTool ==
    /\ at = "tools"
    /\ IF json_loads(message_response.tool_calls[tool_pos].arguments).ok
       THEN /\ ran' = Append(ran, message_response.tool_calls[tool_pos])
            /\ messages' = Append(messages, ToolMessage(message_response.tool_calls[tool_pos]))
            /\ tool_pos' = tool_pos + 1
            /\ at' = IF tool_pos = Len(message_response.tool_calls) THEN "call" ELSE "tools"
       ELSE /\ at' = "input"
            /\ UNCHANGED <<ran, messages, tool_pos>>
    /\ UNCHANGED <<message_response, stream, api_calls>>
    /\ UNCHANGED bodegaVars

NextAgent ==
    \/ \E user_input \in {"text", "/c", "/q"} : UserInput(user_input)
    \/ \E failed \in BOOLEAN, chunks \in SeqsUpTo(AgentChunks, MaxChunks) : CallApi(failed, chunks)
    \/ RunTool

SpecAgent == InitAgent /\ [][NextAgent]_vars

(***************************************************************************)
(* Claims about the reference agent                                        *)
(***************************************************************************)

RECURSIVE AllContent(_)
\* every content delta of a stream, in order
AllContent(chunks) ==
    IF chunks = <<>> THEN <<>> ELSE chunks[1].content \o AllContent(Tail(chunks))

RECURSIVE AllDeltas(_)
\* every tool-call delta of a stream, in order
AllDeltas(chunks) ==
    IF chunks = <<>> THEN <<>> ELSE chunks[1].tool_calls \o AllDeltas(Tail(chunks))

RECURSIVE Joined(_, _)
\* the name and the arguments the deltas of one index spell
Joined(deltas, idx) ==
    IF deltas = <<>> THEN [name |-> <<>>, arguments |-> <<>>]
    ELSE LET rest == Joined(Tail(deltas), idx)
         IN  IF deltas[1].index = idx
             THEN [name |-> deltas[1].name \o rest.name,
                   arguments |-> deltas[1].arguments \o rest.arguments]
             ELSE rest

\* the returned message has content and tool-call deltas of every chunk
HasEveryDelta(m, chunks) ==
    /\ m.content = AllContent(chunks)
    /\ \A idx \in 0..MaxIndex :
          Collected(AllDeltas(chunks), idx) =>
             \E k \in 1..Len(m.tool_calls) :
                /\ m.tool_calls[k].index = idx
                /\ m.tool_calls[k].name = Joined(AllDeltas(chunks), idx).name
                /\ m.tool_calls[k].arguments = Joined(AllDeltas(chunks), idx).arguments

\* C38: the message call_api returns for a stream of chunks has the concatenation
\* of all content deltas as its content and every tool-call delta in its tool
\* calls, also those of a chunk that carries reasoning text as well.
C38_EveryDeltaAccumulated ==
    message_response.ok => HasEveryDelta(message_response, stream)

\* the tool call the loop of main() is at
tool_call == message_response.tool_calls[tool_pos]

\* C37: in a turn of the agent, each tool call of the response is dispatched once,
\* in the order of the response's list, and answered by one tool message with the
\* call's id; the API is called again only after the last of them; and the turn
\* ends exactly when the API call fails or its response has no tool calls.
C37_TurnLoop ==
    [][ /\ at = "call" =>
             (at' = "input" <=> (~message_response'.ok \/ message_response'.tool_calls = <<>>))
        /\ at = "tools" =>
             /\ ran' = Append(ran, tool_call)
             /\ messages' = Append(messages, ToolMessage(tool_call))
             /\ tool_pos' = tool_pos + 1
             /\ at' = IF tool_pos = Len(message_response.tool_calls) THEN "call" ELSE "tools"
      ]_vars

(***************************************************************************)
(* Claims about the parser's buffers                                       *)
(***************************************************************************)

\* C39: after every return of process(): in the tool-call state the pending buffer
\* is empty (it was moved to the tool buffer); in any other state the tool buffer is
\* empty; and the pending buffer holds at most keep_size characters.
C39_BuffersSettled ==
    /\ tag_parser.in_tool => tag_parser.buffer = <<>>
    /\ ~tag_parser.in_tool => tag_parser.tool_buffer = <<>>
    /\ Len(tag_parser.buffer) <= keep_size

\* process() returned in the tool-call state with text moved to the tool buffer
C39_Witness ==
    /\ fed > 0
    /\ tag_parser.in_tool
    /\ tag_parser.tool_buffer # <<>>
    /\ tag_parser.buffer = <<>>

====
